---- MODULE Spec2Model ----
(***************************************************************************)
(* A model of slintorm's query builder (src/src/queryBuilder.ts, the first *)
(* class of the file, lines 1-674), of its schema migrator                 *)
(* (src/src/migrator.ts, the Migrator that owns processedTables, lines     *)
(* 302-652) and of the hooks of its model API (src/src/model.ts, lines     *)
(* 183-323).                                                               *)
(*                                                                         *)
(* JavaScript values are tagged records, so that values of different       *)
(* JavaScript types are comparable and never equal: Num(1) is the number   *)
(* 1, Str("1") the string "1".  A row is a function from its own keys to   *)
(* values; a key the row does not have is outside its DOMAIN.  A dotted    *)
(* path "a.b.c" is the sequence of its segments <<"a", "b", "c">>.         *)
(***************************************************************************)
EXTENDS Integers, Sequences, FiniteSets, TLC

\* ------------------------------------------------------------------ bounds
\* Largest primary-key value of the users table (keys are 0..MaxId).
MaxId == 2
\* Number of preload() calls made on one builder.
MaxPreloads == 2
\* Deepest nesting of applyPreloads activations the model follows; a depth the
\* preload paths of the model never reach.
MaxDepth == 4
\* Number of exclude paths given to one removeExcluded call.
MaxExcludes == 2
\* Number of ensureTable calls made in one behaviour.
MaxCalls == 2
\* Number of statements the execute function rejects at will in one behaviour.
MaxRejects == 1
\* Number of where(), whereRaw() and ILike() calls made on one builder.
MaxWheres == 2
\* Largest argument of limit().
MaxLimit == 2
\* Number of calls that execute one builder.
MaxGets == 2
\* Number of fields a model handed to migrateSchema declares.
MaxFields == 2

\* ------------------------------------------------------------------ values
Num(i) == [k |-> "num", v |-> i]
Str(s) == [k |-> "str", v |-> s]
Bool(b) == [k |-> "bool", v |-> b]
Null == [k |-> "null", v |-> 0]
Undefined == [k |-> "undef", v |-> 0]
Obj(r) == [k |-> "obj", v |-> r]
Arr(q) == [k |-> "arr", v |-> q]

\* row[key] in JavaScript: undefined when the row has no such key.
Prop(row, key) == IF key \in DOMAIN row THEN row[key] ELSE Undefined

\* Boolean(v): what Array.prototype.filter(Boolean) keeps.
Truthy(v) ==
  CASE v.k = "num" -> v.v # 0
    [] v.k = "str" -> v.v # ""
    [] v.k = "bool" -> v.v
    [] v.k = "null" -> FALSE
    [] v.k = "undef" -> FALSE
    [] OTHER -> TRUE

\* a === b on primitive values.
StrictEq(a, b) == a.k = b.k /\ a.v = b.v

\* arr.filter(keep) and arr.map(f) on sequences.
FilterSeq(q, keep(_)) == SelectSeq(q, keep)

MapSeq(q, f(_)) == [i \in 1..Len(q) |-> f(q[i])]

Includes(q, x) == \E i \in 1..Len(q) : q[i] = x

\* ------------------------------------------------------------- mapBooleans
\* String(type).toLowerCase().includes("boolean") on the type names that
\* occur in the model's schemas.
TypeNames ==
  {"number", "string", "boolean", "Boolean", "boolean | undefined",
   "Post[]", "Profile", "User", "Author", ""}

IncludesBoolean(t) == t \in {"boolean", "Boolean", "boolean | undefined"}

\* A plausible slip: JavaScript truthiness instead of the three literals.
IsTrueLikeTruthy(val) == Truthy(val)

\* val === 1 || val === true || val === "1"
IsTrueLike(val) ==
  \/ StrictEq(val, Num(1))
  \/ StrictEq(val, Bool(TRUE))
  \/ StrictEq(val, Str("1"))

mapBooleans(row, schemaFields) ==
  [key \in DOMAIN row |->
     IF key \in DOMAIN schemaFields /\ IncludesBoolean(schemaFields[key].type)
     THEN Bool(IsTrueLike(row[key]))
     ELSE row[key]]

\* ---------------------------------------------------------- removeExcluded
\* A plausible slip: a key with nested exclude paths is kept even when the
\* key itself is excluded.
IsExcludedUnlessNested(excludes, key) ==
  /\ Includes(excludes, <<key>>)
  /\ ~ \E i \in 1..Len(excludes) : Len(excludes[i]) > 1 /\ excludes[i][1] = key

\* excludes.includes(key)
IsExcluded(excludes, key) == Includes(excludes, <<key>>)

\* excludes.filter(e => e.startsWith(key + ".")).map(e => e.slice(key.length + 1))
StartsWithKeyDot(e, key) == Len(e) > 1 /\ e[1] = key

NestedFor(excludes, key) ==
  LET hit(e) == StartsWithKeyDot(e, key)
  IN MapSeq(FilterSeq(excludes, hit), Tail)

RECURSIVE removeExcluded(_, _)
removeExcluded(obj, excludes) ==
  IF ~Truthy(obj) \/ obj.k \notin {"obj", "arr"} THEN obj
  ELSE IF obj.k = "arr"
  THEN Arr([i \in 1..Len(obj.v) |-> removeExcluded(obj.v[i], excludes)])
  ELSE Obj([key \in {x \in DOMAIN obj.v : ~IsExcluded(excludes, x)} |->
         LET nested == NestedFor(excludes, key)
             val == obj.v[key]
         IN IF val.k = "arr"
            THEN Arr([i \in 1..Len(val.v) |-> removeExcluded(val.v[i], nested)])
            ELSE IF val.k = "obj" THEN removeExcluded(val, nested)
            ELSE val])

\* ------------------------------------------------------------------ schema
\* The schema description handed to the builder: the User / Post / Profile
\* models of the README, with a boolean column on User, and a Tag model that
\* reaches its posts through the post_tags table.  A field's meta maps
\* directive names to their values.
NoMeta == [x \in {} |-> ""]

Field(type, meta) == [type |-> type, meta |-> meta]

Schema ==
  [User |->
     [table |-> "users", primaryKey |-> "id",
      fields |->
        [id |-> Field("number", NoMeta),
         name |-> Field("string", NoMeta),
         lastname |-> Field("string", NoMeta),
         active |-> Field("boolean", NoMeta),
         posts |-> Field("Post[]",
                     ("relationship onetomany" :> "Post") @@ ("foreignKey" :> "userId")),
         profile |-> Field("Profile",
                     ("relationship onetoone" :> "Profile") @@ ("foreignKey" :> "userId"))]],
   Post |->
     [table |-> "posts", primaryKey |-> "id",
      fields |->
        [id |-> Field("number", NoMeta),
         title |-> Field("string", NoMeta),
         userId |-> Field("number", NoMeta),
         user |-> Field("User",
                     ("relation manytoone" :> "User") @@ ("foreignKey" :> "userId")),
         author |-> Field("Author",
                     ("relation manytoone" :> "Author") @@ ("foreignKey" :> "authorId"))]],
   Profile |->
     [table |-> "profiles", primaryKey |-> "id",
      fields |->
        [id |-> Field("number", NoMeta),
         userId |-> Field("number", NoMeta),
         user |-> Field("User",
                     ("relation onetoone" :> "User") @@ ("foreignKey" :> "userId"))]],
   Tag |->
     [table |-> "tags", primaryKey |-> "id",
      fields |->
        [id |-> Field("number", NoMeta),
         name |-> Field("string", NoMeta),
         posts |-> Field("Post[]",
                     ("relation manytomany" :> "Post") @@ ("foreignKey" :> "tagId") @@
                     ("relatedKey" :> "postId") @@ ("through" :> "post_tags"))]]]

\* Meta keys that start with "relation" or "relationship", and the second
\* word of each: key.split(" ")[1].
RelationKeyKind ==
  ("relation onetomany" :> "onetomany") @@ ("relationship onetomany" :> "onetomany") @@
  ("relation manytoone" :> "manytoone") @@ ("relationship manytoone" :> "manytoone") @@
  ("relation onetoone" :> "onetoone") @@ ("relationship onetoone" :> "onetoone") @@
  ("relation manytomany" :> "manytomany") @@ ("relationship manytomany" :> "manytomany")

NoRelation ==
  [fieldName |-> "", kind |-> "", targetModel |-> "", foreignKey |-> "", relatedKey |-> "",
   through |-> ""]

\* meta[key], "" for undefined.
MetaOf(meta, key) == IF key \in DOMAIN meta THEN meta[key] ELSE ""

\* The relation metadata built from the model's fields, then
\* relations.find(r => r.fieldName === root).
RelationFor(modelSchema, root) ==
  IF root \in DOMAIN modelSchema.fields
     /\ \E key \in DOMAIN modelSchema.fields[root].meta : key \in DOMAIN RelationKeyKind
  THEN LET meta == modelSchema.fields[root].meta
           key == CHOOSE x \in DOMAIN meta : x \in DOMAIN RelationKeyKind
       IN [fieldName |-> root, kind |-> RelationKeyKind[key], targetModel |-> meta[key],
           foreignKey |-> MetaOf(meta, "foreignKey"),
           relatedKey |-> MetaOf(meta, "relatedKey"),
           through |-> MetaOf(meta, "through")]
  ELSE NoRelation

\* ---------------------------------------------------------------- dialects
\* A placeholder of a statement text: "?" or "$n".
Placeholder(mark, n) == [mark |-> mark, n |-> n]

NoPlaceholder == Placeholder("", 0)

\* The keys of Dialects.
DialectNames == {"sqlite", "postgres", "mysql"}

\* this.orm?.dialect || "sqlite": an orm without a dialect has dialect "".
DialectKey(o) == IF o.dialect = "" THEN "sqlite" ELSE o.dialect

\* Dialects[key] is undefined for a key Dialects does not have; every use of
\* the adapter then throws a TypeError.
HasDialect(o) == DialectKey(o) \in DialectNames

\* formatPlaceholder(index)
formatPlaceholder(dialect, index) ==
  IF dialect = "postgres" THEN Placeholder("$", index + 1) ELSE Placeholder("?", 0)

\* quoteIdentifier(name): the quote put around the name, a backtick or a
\* double quote.
QuoteOf(dialect) == IF dialect = "mysql" THEN "backtick" ELSE "double"

quoteIdentifier(dialect, name) == [quote |-> QuoteOf(dialect), name |-> name]

Unquoted(name) == [quote |-> "", name |-> name]

\* One predicate of a WHERE text: its form, its column, its operator and its
\* placeholder.
Clause(form, column, op, ph) == [form |-> form, column |-> column, op |-> op, ph |-> ph]

\* caseInsensitiveLike(column, index)
caseInsensitiveLike(dialect, column, index) ==
  CASE dialect = "sqlite" ->
         Clause("LOWER() LIKE LOWER()", Unquoted(column), "", Placeholder("?", 0))
    [] dialect = "postgres" ->
         Clause("ILIKE", Unquoted(column), "", Placeholder("$", index + 1))
    [] OTHER ->
         Clause("LIKE", Unquoted(column), "", Placeholder("?", 0))

\* ---------------------------------------------------------------- database
\* What the execute function reads: the rows of each table, in key order.
UserRow(i) ==
  [id |-> Num(i), name |-> Str("n"), lastname |-> Str("l"), active |-> Num(i % 2)]

PostRow(i, fk) == [id |-> Num(i), title |-> Str("t"), userId |-> fk]

ProfileRow(i, fk) == [id |-> Num(i), userId |-> fk]

TagRow(i) == [id |-> Num(i), name |-> Str("g")]

\* The post_tags rows of a post: none for a post with no user.
RECURSIVE TagsOf(_)
TagsOf(posts) ==
  IF posts = <<>> THEN <<>>
  ELSE (IF Head(posts).userId = Null THEN <<>>
        ELSE <<[postId |-> Head(posts).id, tagId |-> Head(posts).userId]>>)
       \o TagsOf(Tail(posts))

KeyValues == {Null} \cup {Num(i) : i \in 0..MaxId}

RECURSIVE SeqOfSet(_)
SeqOfSet(S) ==
  IF S = {} THEN <<>>
  ELSE LET m == CHOOSE x \in S : \A y \in S : x <= y
       IN <<m>> \o SeqOfSet(S \ {m})

\* The users are a run of consecutive keys, possibly empty.  Post 1 belongs
\* to any user or to none; post 2, when there is one, belongs to user 1.
\* Profile i belongs to user i, but the last profile belongs to user 0, so the
\* last user has no profile.  There is a tag for each key a user has, and
\* every post carries the tag whose key is the key of its user.
Databases ==
  { [users |-> MapSeq(SeqOfSet(ids), UserRow),
     posts |-> <<PostRow(1, fk)>> \o more,
     profiles |-> [i \in 1..MaxId |-> ProfileRow(i, Num(i % MaxId))],
     tags |-> MapSeq(SeqOfSet(ids), TagRow),
     post_tags |-> TagsOf(<<PostRow(1, fk)>> \o more)] :
      ids \in {lo..hi : lo \in 0..MaxId + 1, hi \in 0..MaxId},
      fk \in KeyValues,
      more \in {<<>>, <<PostRow(2, Num(1))>>} }

\* A statement handed to exec, reduced to what decides its result: the
\* table, the selected columns (<<>> is "*"), the column of the IN predicate
\* ("" when the statement has none), the bound parameters, the quote around
\* its identifiers, the placeholders of the IN list, and the JOIN, WHERE,
\* ORDER BY, LIMIT and OFFSET parts of a base statement.
Statement(dialect, table, cols, column, params) ==
  [table |-> table, cols |-> cols, column |-> column, params |-> params,
   quote |-> QuoteOf(dialect),
   placeholders |-> [i \in 1..Len(params) |-> formatPlaceholder(dialect, i - 1)],
   joins |-> <<>>, where |-> <<>>, orderBy |-> <<>>, limit |-> Null, offset |-> Null]

\* An entry of this._where: { raw, column, op, value }.
NoRaw == Clause("", Unquoted(""), "", NoPlaceholder)

WhereEntry(raw, column, op, value) ==
  [raw |-> raw, column |-> column, op |-> op, value |-> value]

\* The texts this._where.map(...) returns (lines 299-308): a raw entry as it
\* is, any other entry with the placeholder of the running paramIndex.
RECURSIVE WhereSql(_, _, _)
WhereSql(dialect, where, paramIndex) ==
  IF where = <<>> THEN <<>>
  ELSE LET w == Head(where)
       IN IF w.raw # NoRaw
          THEN <<w.raw>> \o WhereSql(dialect, Tail(where), paramIndex)
          ELSE <<Clause("compare", quoteIdentifier(dialect, w.column), w.op,
                        formatPlaceholder(dialect, paramIndex))>>
               \o WhereSql(dialect, Tail(where), paramIndex + 1)

\* The params the same loop pushes.
RECURSIVE WhereParams(_)
WhereParams(where) ==
  IF where = <<>> THEN <<>>
  ELSE LET w == Head(where)
       IN (IF w.raw # NoRaw /\ w.value = Undefined THEN <<>> ELSE <<w.value>>)
          \o WhereParams(Tail(where))

\* buildSql() on a builder b whose dialect is known.
buildSql(b) ==
  LET dialect == DialectKey(b.orm)
  IN [table |-> b.table, cols |-> b._selects, column |-> "",
      params |-> WhereParams(b._where),
      quote |-> QuoteOf(dialect), placeholders |-> <<>>,
      joins |-> b._joins, where |-> WhereSql(dialect, b._where, 0),
      orderBy |-> b._orderBy, limit |-> b._limit, offset |-> b._offset]

\* The rows a SELECT returns: SQL's IN never matches NULL.
SqlIn(val, params) == val.k # "null" /\ val.k # "undef" /\ Includes(params, val)

Project(row, cols) ==
  IF cols = <<>> THEN row
  ELSE [key \in {x \in DOMAIN row : Includes(cols, x)} |-> row[key]]

\* The parameter bound to the placeholder of the k-th predicate: params[n]
\* for "$n", the next parameter in order for "?".
Bound(stmt, k) ==
  LET ph == stmt.where[k].ph
      n == IF ph.mark = "$" THEN ph.n
           ELSE Cardinality({j \in 1..k : stmt.where[j].ph.mark = "?"})
  IN IF n \in 1..Len(stmt.params) THEN stmt.params[n] ELSE Null

\* The strings of the model are single letters: lower-casing maps "N" to
\* "n", and a text contains a letter when it is that letter.
Lower(text) == IF text = "N" THEN "n" ELSE text

SqlLike(val, pattern) ==
  /\ val.k = "str" /\ pattern.k = "str"
  /\ pattern.v = <<"%", pattern.v[2], "%">>
  /\ Lower(val.v) = Lower(pattern.v[2])

\* Whether a row passes the k-th predicate of the WHERE text.  A raw
\* predicate of the model compares its column with 1.
Holds(row, stmt, k) ==
  LET clause == stmt.where[k]
      val == Prop(row, clause.column.name)
  IN CASE clause.form = "compare" -> SqlIn(val, <<Bound(stmt, k)>>)
       [] clause.form = "raw" -> val = Num(1)
       [] OTHER -> SqlLike(val, Bound(stmt, k))

\* left JOIN right ON left.a = right.b: one row per matching pair, the
\* columns of the right row over those of the left row.
RECURSIVE JoinRows(_, _, _)
JoinRows(left, right, join) ==
  IF left = <<>> THEN <<>>
  ELSE LET l == Head(left)
           hit(r) == SqlIn(Prop(r, join.onRight[2]), <<Prop(l, join.onLeft[2])>>)
           merge(r) == [key \in DOMAIN l \cup DOMAIN r |->
                          IF key \in DOMAIN r THEN r[key] ELSE l[key]]
       IN MapSeq(SelectSeq(right, hit), merge) \o JoinRows(Tail(left), right, join)

Reverse(q) == [i \in 1..Len(q) |-> q[Len(q) + 1 - i]]

\* ORDER BY on the key the rows are stored by.
Ordered(rows, orderBy) ==
  IF orderBy # <<>> /\ orderBy[1].dir = "DESC" THEN Reverse(rows) ELSE rows

Min(a, b) == IF a < b THEN a ELSE b

\* LIMIT n OFFSET m
Window(rows, limit, offset) ==
  LET m == IF offset = Null THEN 0 ELSE offset.v
      n == IF limit = Null THEN Len(rows) ELSE limit.v
  IN SubSeq(rows, m + 1, Min(Len(rows), m + n))

ExecRows(database, stmt) ==
  LET from == IF stmt.joins = <<>> THEN database[stmt.table]
              ELSE JoinRows(database[stmt.table], database[stmt.joins[1].table],
                            stmt.joins[1])
      hit(r) == /\ stmt.column = "" \/ SqlIn(Prop(r, stmt.column), stmt.params)
                /\ \A k \in 1..Len(stmt.where) : Holds(r, stmt, k)
      cut(r) == Project(r, stmt.cols)
  IN MapSeq(Window(Ordered(SelectSeq(from, hit), stmt.orderBy), stmt.limit, stmt.offset),
            cut)

\* ------------------------------------------------------------ applyPreloads
\* The roots, the one that appears last first.
RootsLatestFirst(preloads) ==
  LET n == Len(preloads)
      rev == [k \in 1..n |-> preloads[n + 1 - k][1]]
      firsts == SeqOfSet({k \in 1..n : \A j \in 1..k - 1 : rev[j] # rev[k]})
  IN [k \in 1..Len(firsts) |-> rev[firsts[k]]]

\* Object.keys(grouped): the roots in the order they first appear.
RECURSIVE Roots(_)
Roots(preloads) ==
  IF preloads = <<>> THEN <<>>
  ELSE LET init == Roots(SubSeq(preloads, 1, Len(preloads) - 1))
           root == preloads[Len(preloads)][1]
       IN IF Includes(init, root) THEN init ELSE Append(init, root)

\* A plausible slip: the whole path is pushed, not what follows the root.
GroupedWhole(preloads, root) ==
  LET hit(p) == p[1] = root /\ Len(p) > 1
  IN SelectSeq(preloads, hit)

\* grouped[root]: the remainders of the paths that start with root.
Grouped(preloads, root) ==
  LET hit(p) == p[1] = root /\ Len(p) > 1
  IN MapSeq(SelectSeq(preloads, hit), Tail)

\* A plausible slip: dotted excludes are not handed down to the relation.
_nestedExcludesNone(exclude, root) == <<>>

\* this._exclude.filter(f => f.startsWith(root + ".")).map(f => f.slice(root.length + 1))
_nestedExcludes(exclude, root) == NestedFor(exclude, root)

\* applyExcludes: delete the non-dotted excludes from a copy of the row.
applyExcludes(row, exclude) ==
  [key \in {x \in DOMAIN row : ~Includes(exclude, <<x>>)} |-> row[key]]

cleanRow(row, targetSchema, root, exclude) ==
  LET clean == mapBooleans(row, targetSchema.fields)
      nestedExcludes == _nestedExcludes(exclude, root)
  IN IF nestedExcludes # <<>> THEN removeExcluded(Obj(clean), nestedExcludes).v
     ELSE clean

\* A plausible slip: every parent row contributes a key, usable or not.
KeysOfUnfiltered(rows, column) ==
  LET pick(r) == Prop(r, column)
  IN MapSeq(rows, pick)

\* rows.map(r => r[rootPK]).filter(Boolean)
KeysOf(rows, column) ==
  LET pick(r) == Prop(r, column)
  IN SelectSeq(MapSeq(rows, pick), Truthy)

parentIds(rows, rootPK) == KeysOf(rows, rootPK)

\* arr.find(test): the first element that passes, or undefined.
Find(q, test(_)) ==
  LET hits == SelectSeq(q, test)
  IN IF hits = <<>> THEN Undefined ELSE Obj(hits[1])

SetField(row, key, val) == [x \in DOMAIN row \cup {key} |-> IF x = key THEN val ELSE row[x]]

VARIABLES
  db,         \* the tables the execute function reads
  modelName,  \* the builder's model
  _selects,   \* select(): <<>> when never called
  _preloads,  \* preload() paths, in call order
  _exclude,   \* exclude() paths, in call order
  pc,         \* "build", "preload", "done" or "rejected"
  stack,      \* the applyPreloads activations of the running get(), innermost last
  log,        \* the statements handed to exec by the running get(), with their outcome
  result,     \* the rows get() resolved with
  table,      \* the builder's table
  orm,        \* the builder's orm: its dialect, "" when it has none
  _where,     \* where(), whereRaw() and ILike() entries, in call order
  _orderBy,   \* orderBy() entries, in call order
  _limit,     \* limit(): Null when never called
  _offset,    \* offset(): Null when never called
  _joins,     \* join() entries, in call order
  called,     \* the running call: get or first, and _limit when it was made
  returned,   \* what the call resolved with
  earlier,    \* the base statements of the earlier calls on this builder
  pf,         \* the pure-function harness (mapBooleans, removeExcluded)
  catalog,         \* the live metadata of the migrated table
  processedTables, \* the process-wide set of table names
  calls            \* the ensureTable calls made so far, in call order, each with
                   \* the statements it handed to exec

\* The builder variables the model of the preloads leaves alone.
bvars == <<table, orm, _where, _orderBy, _limit, _offset, _joins, called, returned, earlier>>

qbvars == <<db, modelName, _selects, _preloads, _exclude, pc, stack, log, result, bvars>>

mvars == <<catalog, processedTables, calls>>

vars == <<db, modelName, _selects, _preloads, _exclude, pc, stack, log, result, pf,
          catalog, processedTables, calls, table, orm, _where, _orderBy, _limit, _offset,
          _joins, called, returned, earlier>>

NoCall == [method |-> "", limit |-> Null]

NoDatabase ==
  [users |-> <<>>, posts |-> <<>>, profiles |-> <<>>, tags |-> <<>>, post_tags |-> <<>>]

\* The builder variables of a specification that runs no query.
QBIdle ==
  /\ db = NoDatabase /\ modelName = "" /\ _selects = <<>> /\ _preloads = <<>>
  /\ _exclude = <<>> /\ pc = "idle" /\ stack = <<>> /\ log = <<>> /\ result = <<>>
  /\ table = "" /\ orm = [dialect |-> ""] /\ _where = <<>> /\ _orderBy = <<>>
  /\ _limit = Null /\ _offset = Null /\ _joins = <<>>
  /\ called = NoCall /\ returned = Undefined /\ earlier = <<>>

PFIdle == pf = [fn |-> "none"]

AbsentTable == [exists |-> FALSE, columns |-> {}, indexes |-> {}, constraints |-> {}]

\* The migrator variables of a specification that migrates nothing.
MigIdle ==
  /\ catalog = AbsentTable /\ processedTables = {} /\ calls = <<>>


\* ------------------------------------------------- one applyPreloads root
\* An activation of applyPreloads: the builder it runs on (modelName,
\* _preloads, _exclude), its rows, the index of the root being resolved, the
\* rows fetched for that root and, for a many-to-many root, the junction rows.
Frame(model, preloads, exclude, rows) ==
  [modelName |-> model, preloads |-> preloads, exclude |-> exclude, rows |-> rows,
   i |-> 1, phase |-> "root", relatedRows |-> <<>>, junction |-> <<>>]

RootOf(f) == Roots(f.preloads)[f.i]

\* `relations`, built once per applyPreloads from the model's fields.
relations ==
  [model \in DOMAIN Schema |->
     [root \in DOMAIN Schema[model].fields |-> RelationFor(Schema[model], root)]]

\* relations.find(r => r.fieldName === root)
RelationOf(f) ==
  IF RootOf(f) \in DOMAIN relations[f.modelName] THEN relations[f.modelName][RootOf(f)]
  ELSE NoRelation

TargetPK(targetSchema) ==
  IF targetSchema.primaryKey # "" THEN targetSchema.primaryKey ELSE "id"

\* rows[0].hasOwnProperty(foreignKey)
parentHasFK(f) == RelationOf(f).foreignKey \in DOMAIN f.rows[1]

fkValues(f) ==
  IF parentHasFK(f) THEN KeysOf(f.rows, RelationOf(f).foreignKey)
  ELSE parentIds(f.rows, Schema[f.modelName].primaryKey)

SetAll(rows, key, val) ==
  LET put(r) == SetField(r, key, val)
  IN MapSeq(rows, put)

\* The rows as `continue` leaves them when the root is passed over.
ContinuedWithNull(rows, root) ==
  [i \in 1..Len(rows) |->
     [x \in DOMAIN rows[i] \cup {root} |-> IF x = root THEN Null ELSE rows[i][x]]]

\* if (!relation) continue; if (!targetSchema) continue;
Continued(rows, root) == rows

\* What resolving the current root does before it awaits exec: "skip" with
\* the rows as they are left, or "query" with the statement to execute.
RootPlan(f) ==
  LET root == RootOf(f)
      relation == RelationOf(f)
      rootPK == Schema[f.modelName].primaryKey
      ids == parentIds(f.rows, rootPK)
      skip(rows) == [act |-> "skip", rows |-> rows, stmt |-> Statement("", "", <<>>, "", <<>>)]
      query(stmt) == [act |-> "query", rows |-> f.rows, stmt |-> stmt]
  IN IF relation = NoRelation THEN skip(Continued(f.rows, root))
     ELSE IF relation.targetModel \notin DOMAIN Schema THEN skip(Continued(f.rows, root))
     ELSE IF ids = <<>>
     THEN skip(SetAll(f.rows, root, IF relation.kind = "onetomany" THEN Arr(<<>>) ELSE Null))
     ELSE IF relation.foreignKey = "" THEN skip(f.rows)
     ELSE LET targetSchema == Schema[relation.targetModel]
          IN CASE relation.kind = "onetomany" ->
                    query(Statement(DialectKey(orm), targetSchema.table, <<>>, relation.foreignKey, ids))
               [] relation.kind \in {"manytoone", "onetoone"} ->
                    IF fkValues(f) = <<>> THEN skip(SetAll(f.rows, root, Null))
                    ELSE query(Statement(DialectKey(orm), targetSchema.table, <<>>,
                                 IF parentHasFK(f) THEN TargetPK(targetSchema)
                                 ELSE relation.foreignKey,
                                 fkValues(f)))
               [] relation.kind = "manytomany" ->
                    IF relation.relatedKey = "" \/ relation.through = "" THEN skip(f.rows)
                    ELSE query(Statement(DialectKey(orm), relation.through, <<>>,
                                         relation.foreignKey, ids))
               [] OTHER -> skip(f.rows)

\* The assignment of the fetched rows to the parents (lines 492-497, 528-534).
AssignRelated(f, relatedRows) ==
  LET root == RootOf(f)
      relation == RelationOf(f)
      rootPK == Schema[f.modelName].primaryKey
      targetSchema == Schema[relation.targetModel]
      targetPK == TargetPK(targetSchema)
      clean(r) == Obj(cleanRow(r, targetSchema, root, f.exclude))
      many(row) ==
        LET mine(r) == StrictEq(Prop(r, relation.foreignKey), Prop(row, rootPK))
        IN SetField(row, root, Arr(MapSeq(SelectSeq(relatedRows, mine), clean)))
      one(row) ==
        LET owned(r) == StrictEq(Prop(r, targetPK), Prop(row, relation.foreignKey))
            reverse(r) == StrictEq(Prop(r, relation.foreignKey), Prop(row, rootPK))
            rel == IF parentHasFK(f) THEN Find(relatedRows, owned)
                   ELSE Find(relatedRows, reverse)
        IN SetField(row, root, IF rel = Undefined THEN Null ELSE clean(rel.v))
  IN IF relation.kind = "onetomany" THEN MapSeq(f.rows, many) ELSE MapSeq(f.rows, one)

\* [...new Set(q)]: the distinct values in the order they first occur.
RECURSIVE Distinct(_)
Distinct(q) ==
  IF q = <<>> THEN <<>>
  ELSE LET init == Distinct(SubSeq(q, 1, Len(q) - 1))
       IN IF Includes(init, q[Len(q)]) THEN init ELSE Append(init, q[Len(q)])

\* [...new Set(junction.map(j => j[relatedKey]))]
targetIds(f, junction) ==
  LET pick(j) == Prop(j, RelationOf(f).relatedKey)
  IN Distinct(MapSeq(junction, pick))

\* The many-to-many assignment with one item for each junction row.
AssignJunctionPerRow(f, junction, loaded, cleaned) ==
  LET root == RootOf(f)
      relation == RelationOf(f)
      targetSchema == Schema[relation.targetModel]
      item(r) == IF cleaned THEN Obj(cleanRow(r, targetSchema, root, f.exclude)) ELSE Obj(r)
      assign(row) ==
        LET mine(j) == StrictEq(Prop(j, relation.foreignKey),
                                Prop(row, Schema[f.modelName].primaryKey))
            own == SelectSeq(junction, mine)
            held(j) == \E k \in 1..Len(loaded) :
                         StrictEq(Prop(j, relation.relatedKey),
                                  Prop(loaded[k], TargetPK(targetSchema)))
            of(j) == item(loaded[CHOOSE k \in 1..Len(loaded) :
                                   StrictEq(Prop(j, relation.relatedKey),
                                            Prop(loaded[k], TargetPK(targetSchema)))])
        IN SetField(row, root, Arr(MapSeq(SelectSeq(own, held), of)))
  IN MapSeq(f.rows, assign)

\* The many-to-many assignment: to each parent the loaded rows whose key is a
\* relatedKey of the parent's junction rows; cleaned after the root's own
\* statements (lines 562-570), as they are after the nested recursion (lines
\* 613-621).
AssignJunction(f, junction, loaded, cleaned) ==
  LET root == RootOf(f)
      relation == RelationOf(f)
      rootPK == Schema[f.modelName].primaryKey
      targetSchema == Schema[relation.targetModel]
      targetPK == TargetPK(targetSchema)
      item(r) == IF cleaned THEN Obj(cleanRow(r, targetSchema, root, f.exclude)) ELSE Obj(r)
      assign(row) ==
        LET mine(j) == StrictEq(Prop(j, relation.foreignKey), Prop(row, rootPK))
            pick(j) == Prop(j, relation.relatedKey)
            ids == MapSeq(SelectSeq(junction, mine), pick)
            held(r) == \E k \in 1..Len(ids) : StrictEq(ids[k], Prop(r, targetPK))
        IN SetField(row, root, Arr(MapSeq(SelectSeq(loaded, held), item)))
  IN MapSeq(f.rows, assign)

\* The activation after the statement of its root resolved: for a
\* many-to-many root the junction rows, and [] for every parent when they
\* name no target; for the other kinds the assignment of the fetched rows.
AfterRootQuery(f, fetched) ==
  IF RelationOf(f).kind = "manytomany"
  THEN IF targetIds(f, fetched) = <<>>
       THEN [f EXCEPT !.rows = SetAll(f.rows, RootOf(f), Arr(<<>>)), !.phase = "nested"]
       ELSE [f EXCEPT !.junction = fetched, !.phase = "targets"]
  ELSE [f EXCEPT !.rows = AssignRelated(f, fetched), !.relatedRows = fetched,
                 !.phase = "nested"]

\* The builder the nested section constructs (line 583): its model name is
\* this.modelName, its preloads the nested paths, its excludes the nested ones.
NestedModelName(f) == f.modelName

NestedFrame(f) ==
  Frame(NestedModelName(f), Grouped(f.preloads, RootOf(f)),
        _nestedExcludes(f.exclude, RootOf(f)), f.relatedRows)

\* What applyPreloads returns: rows.map(r => this.applyExcludes(r)).
Returned(f) ==
  LET strip(r) == applyExcludes(r, f.exclude)
  IN MapSeq(f.rows, strip)

\* The re-assignment after the nested recursion (lines 589-605).
AssignNested(f, nestedLoaded) ==
  LET root == RootOf(f)
      relation == RelationOf(f)
      rootPK == Schema[f.modelName].primaryKey
      targetPK == TargetPK(Schema[relation.targetModel])
      many(row) ==
        LET mine(r) == StrictEq(Prop(r, relation.foreignKey), Prop(row, rootPK))
        IN SetField(row, root, Arr(MapSeq(SelectSeq(nestedLoaded, mine), Obj)))
      one(row) ==
        LET held == Prop(row, root)
            key == IF held.k = "obj" THEN Prop(held.v, targetPK) ELSE Undefined
            same(r) == StrictEq(Prop(r, targetPK), key)
            match == Find(nestedLoaded, same)
        IN IF match = Undefined THEN row ELSE SetField(row, root, match)
  IN CASE relation.kind = "onetomany" -> MapSeq(f.rows, many)
       [] relation.kind \in {"manytoone", "onetoone"} -> MapSeq(f.rows, one)
       [] OTHER -> f.rows

\* The end of get(): boolean mapping, then the non-dotted excludes.
Finished(rows) ==
  LET map(r) == mapBooleans(r, Schema[modelName].fields)
      strip(r) == IF _exclude # <<>> THEN applyExcludes(r, _exclude) ELSE r
  IN MapSeq(MapSeq(rows, map), strip)

\* A plausible slip: the rejection is caught and the call goes on with no rows.
PropagatesNever(ok) == FALSE

\* exec rejects: the await throws and the error leaves get().
Propagates(ok) == ~ok

\* ------------------------------------------------------ the builder's calls
PreloadPaths ==
  [User |-> {<<"posts">>, <<"posts", "posts">>, <<"profile">>,
            <<"profile", "user", "profile">>},
   Post |-> {<<"user">>, <<"user", "profile">>},
   Tag |-> {<<"posts">>, <<"posts", "posts">>}]

\* The argument lists of exclude(...columns).
ExcludeColumns ==
  [User |-> {<<<<"lastname">>>>, <<<<"posts", "title">>>>},
   Post |-> {<<<<"user", "lastname">>>>, <<<<"user", "id">>>>},
   Tag |-> {<<<<"posts", "title">>>>}]

SelectColumns ==
  [User |-> {<<"name">>}, Post |-> {<<"title", "userId">>},
   Tag |-> {<<"name">>}, Ghost |-> {<<"name">>}]

Models == {"User", "Post", "Tag"}

\* The builder after construction: no intent, nothing executed.
NewBuilder ==
  /\ modelName \in Models
  /\ _selects = <<>> /\ _preloads = <<>> /\ _exclude = <<>>
  /\ pc = "build" /\ stack = <<>> /\ log = <<>> /\ result = <<>>
  /\ table = Schema[modelName].table /\ orm = [dialect |-> "sqlite"]
  /\ _where = <<>> /\ _orderBy = <<>> /\ _limit = Null /\ _offset = Null /\ _joins = <<>>
  /\ called = NoCall /\ returned = Undefined /\ earlier = <<>>
  /\ PFIdle /\ MigIdle

Init == db \in Databases /\ NewBuilder

\* select(...cols), called at most once on a builder.
select ==
  /\ pc = "build" /\ _selects = <<>>
  /\ \E cols \in SelectColumns[modelName] : _selects' = cols
  /\ UNCHANGED <<db, modelName, _preloads, _exclude, pc, stack, log, result, pf, mvars, bvars>>

\* preload(relation)
preload ==
  /\ pc = "build" /\ Len(_preloads) < MaxPreloads
  /\ \E relation \in PreloadPaths[modelName] : _preloads' = Append(_preloads, relation)
  /\ UNCHANGED <<db, modelName, _selects, _exclude, pc, stack, log, result, pf, mvars, bvars>>

\* exclude(...columns), called at most once on a builder.
exclude ==
  /\ pc = "build" /\ _exclude = <<>>
  /\ \E columns \in ExcludeColumns[modelName] : _exclude' = _exclude \o columns
  /\ UNCHANGED <<db, modelName, _selects, _preloads, pc, stack, log, result, pf, mvars, bvars>>

\* The call chain of a statement: the model and the root of each running
\* applyPreloads, outermost first; <<>> for the base statement.
Chain == [i \in 1..Len(stack) |-> [model |-> stack[i].modelName, root |-> RootOf(stack[i])]]

Logged(stmt, ok) == Append(log, [stmt |-> stmt, ok |-> ok, chain |-> Chain])

\* The builder as a record of its fields.
Builder ==
  [table |-> table, orm |-> orm, _selects |-> _selects, _where |-> _where,
   _orderBy |-> _orderBy, _limit |-> _limit, _offset |-> _offset, _joins |-> _joins,
   _preloads |-> _preloads, _exclude |-> _exclude]

\* A plausible slip: the where list is emptied once its statement is built.
IntentAfterGetCleared(b) == [b EXCEPT !._where = <<>>]

\* The builder after get(): buildSql and get read its fields and assign none.
IntentAfterGet(b) == b

\* What the call resolves with: get() with the rows, first() with
\* rows[0] || null.
Returns(method, rows) ==
  IF method = "first" THEN (IF rows = <<>> THEN Null ELSE Obj(rows[1])) ELSE Arr(rows)

\* get() on the builder b, up to its first await of a preload statement or to
\* its end.  With no adapter for the dialect buildSql throws; with no schema
\* entry for the model the read of its fields (line 342) throws.
Run(b, method) ==
  LET after == IntentAfterGet(b)
  IN /\ _selects' = after._selects /\ _where' = after._where
     /\ _orderBy' = after._orderBy /\ _limit' = after._limit
     /\ _offset' = after._offset /\ _joins' = after._joins
     /\ _preloads' = after._preloads /\ _exclude' = after._exclude
     /\ called' = [method |-> method, limit |-> _limit]
     /\ IF ~HasDialect(b.orm)
        THEN pc' = "rejected" /\ UNCHANGED <<stack, log, result, returned>>
        ELSE \E ok \in BOOLEAN :
               LET stmt == buildSql(b)
                   rows == ExecRows(db, stmt)
               IN /\ log' = Logged(stmt, ok)
                  /\ IF Propagates(ok)
                     THEN pc' = "rejected" /\ UNCHANGED <<stack, result, returned>>
                     ELSE IF modelName \in DOMAIN Schema
                             /\ ok /\ b._preloads # <<>> /\ rows # <<>>
                     THEN /\ pc' = "preload"
                          /\ stack' = <<Frame(modelName, b._preloads, b._exclude, rows)>>
                          /\ UNCHANGED <<result, returned>>
                     ELSE IF modelName \notin DOMAIN Schema
                     THEN pc' = "rejected" /\ UNCHANGED <<stack, result, returned>>
                     ELSE /\ pc' = "done"
                          /\ result' = Finished(IF ok THEN rows ELSE <<>>)
                          /\ returned' = Returns(method, Finished(IF ok THEN rows ELSE <<>>))
                          /\ UNCHANGED stack
     /\ UNCHANGED <<db, modelName, table, orm, earlier, pf, mvars>>

\* get()
get ==
  /\ pc \in {"build", "again"}
  /\ Run(Builder, "get")

Top == stack[Len(stack)]

SetTop(f) == [stack EXCEPT ![Len(stack)] = f]

\* A root that issues no statement: `continue`, or `break` with no rows fetched.
SkipRoot ==
  /\ pc = "preload" /\ Top.phase = "root" /\ Top.i <= Len(Roots(Top.preloads))
  /\ RootPlan(Top).act = "skip"
  /\ stack' = SetTop([Top EXCEPT !.rows = RootPlan(Top).rows, !.i = @ + 1])
  /\ UNCHANGED <<db, modelName, _selects, _preloads, _exclude, pc, log, result, pf, mvars, bvars>>

\* A root's own statement and the assignment of its rows to the parents.
QueryRoot ==
  /\ pc = "preload" /\ Top.phase = "root" /\ Top.i <= Len(Roots(Top.preloads))
  /\ RootPlan(Top).act = "query"
  /\ \E ok \in BOOLEAN :
       LET stmt == RootPlan(Top).stmt
           relatedRows == IF ok THEN ExecRows(db, stmt) ELSE <<>>
       IN /\ log' = Logged(stmt, ok)
          /\ IF Propagates(ok)
             THEN pc' = "rejected" /\ UNCHANGED stack
             ELSE /\ stack' = SetTop(AfterRootQuery(Top, relatedRows))
                  /\ UNCHANGED pc
  /\ UNCHANGED <<db, modelName, _selects, _preloads, _exclude, result, pf, mvars, bvars>>

\* The second statement of a many-to-many root: the target rows the junction
\* rows name, and their assignment to the parents.
QueryTargets ==
  /\ pc = "preload" /\ Top.phase = "targets"
  /\ \E ok \in BOOLEAN :
       LET targetSchema == Schema[RelationOf(Top).targetModel]
           stmt == Statement(DialectKey(orm), targetSchema.table, <<>>,
                             TargetPK(targetSchema), targetIds(Top, Top.junction))
           relatedRows == IF ok THEN ExecRows(db, stmt) ELSE <<>>
       IN /\ log' = Logged(stmt, ok)
          /\ IF Propagates(ok)
             THEN pc' = "rejected" /\ UNCHANGED stack
             ELSE /\ stack' = SetTop([Top EXCEPT
                                       !.rows = AssignJunction(Top, Top.junction,
                                                               relatedRows, TRUE),
                                       !.relatedRows = relatedRows,
                                       !.phase = "nested"])
                  /\ UNCHANGED pc
  /\ UNCHANGED <<db, modelName, _selects, _preloads, _exclude, result, pf, mvars, bvars>>

HasNested(f) == Grouped(f.preloads, RootOf(f)) # <<>> /\ f.relatedRows # <<>>

\* nested.length && relatedRows.length: recurse on the fetched rows.
EnterNested ==
  /\ pc = "preload" /\ Top.phase = "nested" /\ HasNested(Top)
  /\ Len(stack) < MaxDepth
  /\ stack' = Append(SetTop([Top EXCEPT !.phase = "awaiting"]), NestedFrame(Top))
  /\ UNCHANGED <<db, modelName, _selects, _preloads, _exclude, pc, log, result, pf, mvars, bvars>>

\* No nested section for this root: on to the next root.
NextRoot ==
  /\ pc = "preload" /\ Top.phase = "nested" /\ ~HasNested(Top)
  /\ stack' = SetTop([Top EXCEPT !.phase = "root", !.i = @ + 1, !.relatedRows = <<>>,
                                 !.junction = <<>>])
  /\ UNCHANGED <<db, modelName, _selects, _preloads, _exclude, pc, log, result, pf, mvars, bvars>>

\* The nested applyPreloads returns; its caller re-assigns the relation.
ReturnNested ==
  /\ pc = "preload" /\ Len(stack) > 1
  /\ Top.phase = "root" /\ Top.i > Len(Roots(Top.preloads))
  /\ LET caller == stack[Len(stack) - 1]
         nestedLoaded == Returned(Top)
     IN stack' = Append(SubSeq(stack, 1, Len(stack) - 2),
                        IF RelationOf(caller).kind = "manytomany"
                        THEN [caller EXCEPT !.relatedRows = nestedLoaded,
                                            !.phase = "rejoin"]
                        ELSE [caller EXCEPT !.rows = AssignNested(caller, nestedLoaded),
                                            !.phase = "root", !.i = @ + 1,
                                            !.relatedRows = <<>>])
  /\ UNCHANGED <<db, modelName, _selects, _preloads, _exclude, pc, log, result, pf, mvars, bvars>>

\* After the nested recursion of a many-to-many root: the junction statement
\* once more, and the assignment of the nested rows (lines 607-622).
Rejoin ==
  /\ pc = "preload" /\ Top.phase = "rejoin"
  /\ \E ok \in BOOLEAN :
       LET relation == RelationOf(Top)
           stmt == Statement(DialectKey(orm), relation.through, <<>>, relation.foreignKey,
                             parentIds(Top.rows, Schema[Top.modelName].primaryKey))
           junction == IF ok THEN ExecRows(db, stmt) ELSE <<>>
       IN /\ log' = Logged(stmt, ok)
          /\ IF Propagates(ok)
             THEN pc' = "rejected" /\ UNCHANGED stack
             ELSE /\ stack' = SetTop([Top EXCEPT
                                       !.rows = AssignJunction(Top, junction,
                                                               Top.relatedRows, FALSE),
                                       !.phase = "root", !.i = @ + 1,
                                       !.relatedRows = <<>>, !.junction = <<>>])
                  /\ UNCHANGED pc
  /\ UNCHANGED <<db, modelName, _selects, _preloads, _exclude, result, pf, mvars, bvars>>

\* The outermost applyPreloads returns and get() resolves.
FinishGet ==
  /\ pc = "preload" /\ Len(stack) = 1
  /\ Top.phase = "root" /\ Top.i > Len(Roots(Top.preloads))
  /\ pc' = "done"
  /\ result' = Finished(Returned(Top))
  /\ returned' = Returns(called.method, Finished(Returned(Top)))
  /\ stack' = <<>>
  /\ UNCHANGED <<db, modelName, _selects, _preloads, _exclude, log, pf, mvars>>
  /\ UNCHANGED <<table, orm, _where, _orderBy, _limit, _offset, _joins, called, earlier>>

Next ==
  \/ select \/ preload \/ exclude \/ get
  \/ SkipRoot \/ QueryRoot \/ QueryTargets \/ EnterNested \/ NextRoot \/ ReturnNested
  \/ Rejoin \/ FinishGet

Spec == Init /\ [][Next]_vars

\* A started get() is resumed whenever the promise it awaits settles.
Resume ==
  \/ SkipRoot \/ QueryRoot \/ QueryTargets \/ EnterNested \/ NextRoot \/ ReturnNested
  \/ Rejoin \/ FinishGet

\* The database in which every step of the cycle finds its row: every user,
\* and one post, whose user is user 1.
CyclicDatabases ==
  {d \in Databases :
     /\ Len(d.posts) = 1 /\ d.posts[1].userId = Num(1)
     /\ Len(d.users) = MaxId + 1}

InitCyclic == Init /\ db \in CyclicDatabases

\* The database in which the junction table pairs each post with its tag in
\* two rows.
PairedTwiceDatabases == {[d EXCEPT !.post_tags = @ \o @] : d \in CyclicDatabases}

InitPairedTwice == db \in PairedTwiceDatabases /\ NewBuilder

SpecPairedTwice == InitPairedTwice /\ [][Next]_vars

\* Paths whose root cannot be resolved: a plain field of the model, and a
\* relation whose target model the schema does not have.
UnresolvedPaths ==
  [User |-> {<<"name">>}, Post |-> {<<"author">>, <<"title">>}, Tag |-> {<<"name">>}]

\* preload(relation) with such a path.
preloadUnresolved ==
  /\ pc = "build" /\ Len(_preloads) < MaxPreloads
  /\ \E relation \in UnresolvedPaths[modelName] : _preloads' = Append(_preloads, relation)
  /\ UNCHANGED <<db, modelName, _selects, _exclude, pc, stack, log, result, pf, mvars, bvars>>

NextUnresolved == Next \/ preloadUnresolved

SpecUnresolved == InitCyclic /\ [][NextUnresolved]_vars

FairSpec == InitCyclic /\ [][Next]_vars /\ WF_vars(Resume)

\* -------------------------------------------------- the builder's statement
\* new QueryBuilder(table, dir, exec, modelName, schema, orm), with a
\* directory and a schema: `if (!this.modelName) throw`.
QueryBuilder ==
  /\ pc = "new"
  /\ pc' = IF modelName = "" THEN "threw" ELSE "build"
  /\ UNCHANGED <<db, modelName, _selects, _preloads, _exclude, stack, log, result, pf,
                 mvars, bvars>>

\* where(column, op, value): where("id", "=", k) as the k-th entry, so that
\* no two entries carry the same value.
where ==
  /\ pc = "build" /\ Len(_where) < MaxWheres
  /\ \E value \in {Num(Len(_where) + 1)} :
       _where' = Append(_where, WhereEntry(NoRaw, "id", "=", value))
  /\ UNCHANGED <<db, modelName, _selects, _preloads, _exclude, pc, stack, log, result, pf,
                 mvars, table, orm, _orderBy, _limit, _offset, _joins, called, returned,
                 earlier>>

\* whereRaw(sql), with the text "active = 1"
whereRaw ==
  /\ pc = "build" /\ Len(_where) < MaxWheres
  /\ _where' = Append(_where,
                 WhereEntry(Clause("raw", Unquoted("active"), "= 1", NoPlaceholder),
                            "", "", Undefined))
  /\ UNCHANGED <<db, modelName, _selects, _preloads, _exclude, pc, stack, log, result, pf,
                 mvars, table, orm, _orderBy, _limit, _offset, _joins, called, returned,
                 earlier>>

\* `%${value}%`
LikePattern(value) == Str(<<"%", value, "%">>)

\* ILike(column, value): the clause of the dialect with this._where.length as
\* its index.  With no adapter for the dialect the call throws.
ILike ==
  /\ pc = "build" /\ Len(_where) < MaxWheres
  /\ IF HasDialect(orm)
     THEN /\ _where' = Append(_where,
                         WhereEntry(caseInsensitiveLike(DialectKey(orm), "name", Len(_where)),
                                    "", "", LikePattern("N")))
          /\ UNCHANGED pc
     ELSE pc' = "threw" /\ UNCHANGED _where
  /\ UNCHANGED <<db, modelName, _selects, _preloads, _exclude, stack, log, result, pf,
                 mvars, table, orm, _orderBy, _limit, _offset, _joins, called, returned,
                 earlier>>

\* orderBy(column, dir), called at most once on a builder.
orderBy ==
  /\ pc = "build" /\ _orderBy = <<>>
  /\ _orderBy' = Append(_orderBy, [col |-> "id", dir |-> "DESC"])
  /\ UNCHANGED <<db, modelName, _selects, _preloads, _exclude, pc, stack, log, result, pf,
                 mvars, table, orm, _where, _limit, _offset, _joins, called, returned,
                 earlier>>

\* limit(n), called at most once on a builder.
limit ==
  /\ pc = "build" /\ _limit = Null
  /\ \E n \in 0..MaxLimit : _limit' = Num(n)
  /\ UNCHANGED <<db, modelName, _selects, _preloads, _exclude, pc, stack, log, result, pf,
                 mvars, table, orm, _where, _orderBy, _offset, _joins, called, returned,
                 earlier>>

\* offset(n), called at most once on a builder.
offset ==
  /\ pc = "build" /\ _offset = Null
  /\ _offset' = Num(1)
  /\ UNCHANGED <<db, modelName, _selects, _preloads, _exclude, pc, stack, log, result, pf,
                 mvars, table, orm, _where, _orderBy, _limit, _joins, called, returned,
                 earlier>>

\* join(table, onLeft, op, onRight), called at most once on a builder.
join ==
  /\ pc = "build" /\ _joins = <<>>
  /\ _joins' = Append(_joins, [kind |-> "JOIN", table |-> "profiles",
                               onLeft |-> <<"users", "id">>, op |-> "=",
                               onRight |-> <<"profiles", "userId">>])
  /\ UNCHANGED <<db, modelName, _selects, _preloads, _exclude, pc, stack, log, result, pf,
                 mvars, table, orm, _where, _orderBy, _limit, _offset, called, returned,
                 earlier>>

\* The conditions first() is given: none, the object { id: 1 }, the string
\* "id = 1".
Conditions == {"none", "object", "string"}

\* Object.keys(modelSchema.fields || {}), [] without a schema entry.
modelCols == IF modelName \in DOMAIN Schema THEN DOMAIN Schema[modelName].fields ELSE {}

\* The string condition with each model column quoted (lines 372-381).
QuotedCondition(column) ==
  Clause("raw",
         IF column \in modelCols THEN quoteIdentifier(DialectKey(orm), column)
         ELSE Unquoted(column),
         "= 1", NoPlaceholder)

\* this.where(key, "=", val) for each key of the object, or the push of the
\* quoted string.
AfterCondition(b, condition) ==
  CASE condition = "object" ->
         [b EXCEPT !._where = Append(@, WhereEntry(NoRaw, "id", "=", Num(1)))]
    [] condition = "string" ->
         [b EXCEPT !._where = Append(@, WhereEntry(QuotedCondition("id"), "", "", Undefined))]
    [] OTHER -> b

\* if (!this._limit) this.limit(1)
LimitForFirst(l) == IF ~Truthy(l) THEN Num(1) ELSE l

\* first(condition).  A string condition is quoted through the adapter of the
\* dialect: with no adapter, and columns to quote, first() throws there.
first ==
  /\ pc = "build"
  /\ \E condition \in Conditions :
       IF condition = "string" /\ modelCols # {} /\ ~HasDialect(orm)
       THEN /\ pc' = "rejected"
            /\ called' = [method |-> "first", limit |-> _limit]
            /\ UNCHANGED <<db, modelName, _selects, _preloads, _exclude, stack, log, result,
                           pf, mvars, table, orm, _where, _orderBy, _limit, _offset, _joins,
                           returned, earlier>>
       ELSE Run([AfterCondition(Builder, condition) EXCEPT !._limit = LimitForFirst(@)],
                "first")

\* The caller keeps the builder of a settled call and calls get() on it
\* again: the records of the settled call are put away.
reuse ==
  /\ pc \in {"done", "rejected"} /\ log # <<>> /\ Len(earlier) < MaxGets - 1
  /\ earlier' = Append(earlier, log[1].stmt)
  /\ pc' = "again" /\ log' = <<>> /\ stack' = <<>> /\ result' = <<>>
  /\ returned' = Undefined
  /\ UNCHANGED <<db, modelName, _selects, _preloads, _exclude, pf, mvars, table, orm,
                 _where, _orderBy, _limit, _offset, _joins, called>>

\* The engine names a builder is configured with: none, the three of
\* Dialects, and one Dialects does not have.
EngineNames == {"", "sqlite", "postgres", "mysql", "mongodb"}

\* One database: every user, one post and the profiles.
SqlDatabase ==
  CHOOSE d \in Databases :
    Len(d.users) = MaxId + 1 /\ Len(d.posts) = 1 /\ d.posts[1].userId = Num(1)

\* A builder on the users table, for the model User, for a model the schema
\* does not have, or with no model name.
InitSql ==
  /\ db = SqlDatabase
  /\ modelName \in {"User", "Ghost", ""}
  /\ table = "users" /\ orm \in {[dialect |-> d] : d \in EngineNames}
  /\ _selects = <<>> /\ _preloads = <<>> /\ _exclude = <<>>
  /\ pc = "new" /\ stack = <<>> /\ log = <<>> /\ result = <<>>
  /\ _where = <<>> /\ _orderBy = <<>> /\ _limit = Null /\ _offset = Null /\ _joins = <<>>
  /\ called = NoCall /\ returned = Undefined /\ earlier = <<>>
  /\ PFIdle /\ MigIdle

NextSql ==
  \/ QueryBuilder \/ select \/ where \/ whereRaw \/ ILike \/ orderBy \/ limit \/ offset \/ join
  \/ first \/ get \/ reuse

SpecSql == InitSql /\ [][NextSql]_vars

\* ---------------------------------------------------------------- migrator
\* Migrator.ensureTable of src/src/migrator.ts, lines 343-515, with the
\* introspection helpers of lines 576-651 and the module-level processedTables
\* of line 302.  One table, "users", is migrated; its field declarations are
\* FieldInfo records reduced to the directives ensureTable reads.  The calls
\* pass no relations array and no field carries a comment or an enum.
Table == "users"

FieldInfo(col, optional, index, unique, foreignKey) ==
  [col |-> col, optional |-> optional, index |-> index, unique |-> unique,
   foreignKey |-> foreignKey]

\* The declarations of one table: an id, an email that may be flagged index
\* and unique, and a teamid that may carry foreignKey "teams".
Declared(index, unique, fk) ==
  << FieldInfo("id", FALSE, FALSE, FALSE, ""),
     FieldInfo("email", FALSE, index, unique, ""),
     FieldInfo("teamid", FALSE, FALSE, FALSE, IF fk THEN "teams" ELSE "") >>

\* The field a later call adds: optional, with no other directive.
Nick == FieldInfo("nick", TRUE, FALSE, FALSE, "")

\* colsSql, each definition reduced to the column it names.
colsSql(schema) ==
  LET name(info) == info.col
  IN MapSeq(schema, name)

\* indexSql, each statement reduced to the index it names.
IdxName(col) == <<"idx", Table, col>>

indexSql(schema) ==
  LET flagged(info) == info.index
      stmt(info) == IdxName(info.col)
  IN MapSeq(SelectSeq(schema, flagged), stmt)

UniqueConstraint(col) == [kind |-> "unique", col |-> col, ref |-> ""]

ForeignKey(col, ref) == [kind |-> "foreignKey", col |-> col, ref |-> ref]

\* The unique and foreign-key clauses of the fields, in declaration order:
\* inlineConstraints when the table does not exist, postConstraints when it does.
RECURSIVE Constraints(_)
Constraints(schema) ==
  IF schema = <<>> THEN <<>>
  ELSE LET info == Head(schema)
       IN (IF info.unique THEN <<UniqueConstraint(info.col)>> ELSE <<>>)
          \o (IF info.foreignKey # "" THEN <<ForeignKey(info.col, info.foreignKey)>> ELSE <<>>)
          \o Constraints(Tail(schema))

inlineConstraints(schema, exists) == IF exists THEN <<>> ELSE Constraints(schema)

postConstraints(schema, exists) == IF exists THEN Constraints(schema) ELSE <<>>

\* The text of a statement, lower-cased, and the text JSON.stringify gives a
\* metadata row, lower-cased: a JSON text starts with a brace, a statement
\* with ALTER.
SqlText(constraint) == [form |-> "sql", of |-> constraint]

JsonText(constraint) == [form |-> "json", of |-> constraint]

\* getExistingFKs: one JSON text per foreign key of the table.
getExistingFKs(cat) ==
  {JsonText(c) : c \in {x \in cat.constraints : x.kind = "foreignKey"}}

\* The statements of postConstraints that existingFKsNow does not include.
MissingConstraints(post, existingFKsNow) ==
  LET missing(c) == SqlText(c) \notin existingFKsNow
  IN SelectSeq(post, missing)

Introspection == {"tableExists", "getExistingColumns", "getExistingIndexes", "getExistingFKs"}

Running(c) == c \in 1..Len(calls) /\ calls[c].at \notin {"done", "rejected"}

\* An ensureTable activation: its schema argument, where it stands, the value
\* of `exists`, the statements its current loop has still to execute, the
\* statements it has handed to exec, and the calls that were still running
\* when it was made.
Call(schema, at) ==
  [schema |-> schema, at |-> at, exists |-> FALSE, todo |-> <<>>, issued |-> <<>>,
   overlaps |-> {c \in 1..Len(calls) : Running(c)}]

RECURSIVE Rejects(_)
Rejects(cs) ==
  IF cs = <<>> THEN 0
  ELSE LET failed(x) == ~x.ok
       IN Len(SelectSeq(Head(cs).issued, failed)) + Rejects(Tail(cs))

\* What the execute function may answer to a statement the database accepts.
Outcomes == IF Rejects(calls) < MaxRejects THEN BOOLEAN ELSE {TRUE}

\* The call after this.exec(...) was handed one more statement.
Issued(call, op, arg, ok) ==
  [call EXCEPT !.issued = Append(@, [op |-> op, arg |-> arg, ok |-> ok])]

\* The table before the first call: absent, or left by an older schema that
\* had the id column only.
InitialCatalogs ==
  {AbsentTable, [exists |-> TRUE, columns |-> {"id"}, indexes |-> {}, constraints |-> {}]}

InitMig ==
  /\ QBIdle /\ PFIdle
  /\ catalog \in InitialCatalogs
  /\ processedTables = {} /\ calls = <<>>

\* The schema argument of a call: the first call's declarations, with or
\* without the optional field.
Schemas ==
  IF calls = <<>>
  THEN {Declared(i, u, fk) : i \in BOOLEAN, u \in BOOLEAN, fk \in BOOLEAN}
  ELSE LET declared == SubSeq(calls[1].schema, 1, 3)
       IN {declared, Append(declared, Nick)}

SetCall(c, call) == [calls EXCEPT ![c] = call]

\* ensureTable is called: `if (processedTables.has(table)) return`, else on
\* to the await of tableExists.  At most two calls run at a time.
ensureTable ==
  /\ Len(calls) < MaxCalls
  /\ \A c1, c2 \in 1..Len(calls) : Running(c1) /\ Running(c2) => c1 = c2
  /\ \E schema \in Schemas :
       calls' = Append(calls, Call(schema, IF Table \in processedTables THEN "done"
                                           ELSE "tableExists"))
  /\ UNCHANGED <<qbvars, pf, catalog, processedTables>>

\* const exists = await this.tableExists(table), then the loop over the fields.
tableExists(c) ==
  /\ Running(c) /\ calls[c].at = "tableExists"
  /\ LET call == Issued(calls[c], "tableExists", Table, TRUE)
     IN calls' = SetCall(c, [call EXCEPT !.exists = catalog.exists,
                               !.at = IF catalog.exists THEN "getExistingColumns"
                                      ELSE "create"])
  /\ UNCHANGED <<qbvars, pf, catalog, processedTables>>

\* What a successful CREATE TABLE IF NOT EXISTS leaves.
Created(cat, schema) ==
  IF cat.exists THEN cat
  ELSE [exists |-> TRUE, columns |-> {schema[i].col : i \in 1..Len(schema)},
        indexes |-> {},
        constraints |-> {inlineConstraints(schema, FALSE)[i] :
                           i \in 1..Len(inlineConstraints(schema, FALSE))}]

\* await this.exec(createSQL); addToProcessed().  The await is in no try
\* block: a rejection leaves ensureTable.
CreateTable(c) ==
  /\ Running(c) /\ calls[c].at = "create"
  /\ \E ok \in Outcomes :
       LET call == Issued(calls[c], "CREATE TABLE", Table, ok)
       IN IF ok
          THEN /\ catalog' = Created(catalog, call.schema)
               /\ processedTables' = processedTables \cup {Table}
               /\ calls' = SetCall(c, [call EXCEPT !.at = "getExistingIndexes"])
          ELSE /\ calls' = SetCall(c, [call EXCEPT !.at = "rejected"])
               /\ UNCHANGED <<catalog, processedTables>>
  /\ UNCHANGED <<qbvars, pf>>

\* const existingCols = await this.getExistingColumns(table); with no column
\* to add, addToProcessed() and on to the indexes.
getExistingColumns(c) ==
  /\ Running(c) /\ calls[c].at = "getExistingColumns"
  /\ LET call == Issued(calls[c], "getExistingColumns", Table, TRUE)
         missing(col) == col \notin catalog.columns
         todo == SelectSeq(colsSql(call.schema), missing)
     IN IF todo = <<>>
        THEN /\ calls' = SetCall(c, [call EXCEPT !.at = "getExistingIndexes"])
             /\ processedTables' = processedTables \cup {Table}
        ELSE /\ calls' = SetCall(c, [call EXCEPT !.at = "addColumn", !.todo = todo])
             /\ UNCHANGED processedTables
  /\ UNCHANGED <<qbvars, pf, catalog>>

\* A rejection that leaves the loop it happens in.
Uncaught(at, ok) == IF ok THEN at ELSE "rejected"

\* try { await this.exec(...) } catch {}: where the call goes on after the
\* statement, whether it resolved or was rejected.
Caught(at, ok) == at

\* try { await this.exec(`ALTER TABLE ... ADD COLUMN ...`) } catch {}; after
\* the last column, addToProcessed().  The database rejects a column it has.
AddColumn(c) ==
  /\ Running(c) /\ calls[c].at = "addColumn"
  /\ \E ok \in IF Head(calls[c].todo) \in catalog.columns THEN {FALSE} ELSE Outcomes :
       LET col == Head(calls[c].todo)
           rest == Tail(calls[c].todo)
           call == Issued(calls[c], "ALTER TABLE ADD COLUMN", col, ok)
       IN /\ catalog' = IF ok THEN [catalog EXCEPT !.columns = @ \cup {col}] ELSE catalog
          /\ IF rest = <<>>
             THEN /\ calls' = SetCall(c, [call EXCEPT !.at = Caught("getExistingIndexes", ok),
                                            !.todo = <<>>])
                  /\ processedTables' = processedTables \cup {Table}
             ELSE /\ calls' = SetCall(c, [call EXCEPT !.todo = rest, !.at = Caught(@, ok)])
                  /\ UNCHANGED processedTables
  /\ UNCHANGED <<qbvars, pf>>

\* const existingIndexes = await this.getExistingIndexes(table)
getExistingIndexes(c) ==
  /\ Running(c) /\ calls[c].at = "getExistingIndexes"
  /\ LET call == Issued(calls[c], "getExistingIndexes", Table, TRUE)
         missing(idx) == idx \notin catalog.indexes
         todo == SelectSeq(indexSql(call.schema), missing)
     IN calls' = SetCall(c, IF todo = <<>> THEN [call EXCEPT !.at = "getExistingFKs"]
                            ELSE [call EXCEPT !.at = "createIndex", !.todo = todo])
  /\ UNCHANGED <<qbvars, pf, catalog, processedTables>>

\* try { await this.exec(idx) } catch {}
CreateIndex(c) ==
  /\ Running(c) /\ calls[c].at = "createIndex"
  /\ \E ok \in Outcomes :
       LET idx == Head(calls[c].todo)
           rest == Tail(calls[c].todo)
           call == Issued(calls[c], "CREATE INDEX", idx, ok)
       IN /\ catalog' = IF ok THEN [catalog EXCEPT !.indexes = @ \cup {idx}] ELSE catalog
          /\ calls' = SetCall(c, [call EXCEPT !.todo = rest,
                                    !.at = Caught(IF rest = <<>> THEN "getExistingFKs" ELSE @, ok)])
  /\ UNCHANGED <<qbvars, pf, processedTables>>

\* const existingFKsNow = await this.getExistingFKs(table), then the
\* statements of postConstraints it does not include.
GetExistingFKs(c) ==
  /\ Running(c) /\ calls[c].at = "getExistingFKs"
  /\ LET call == Issued(calls[c], "getExistingFKs", Table, TRUE)
         todo == MissingConstraints(postConstraints(call.schema, call.exists),
                                    getExistingFKs(catalog))
     IN calls' = SetCall(c, IF todo = <<>> THEN [call EXCEPT !.at = "done"]
                            ELSE [call EXCEPT !.at = "addConstraint", !.todo = todo])
  /\ UNCHANGED <<qbvars, pf, catalog, processedTables>>

\* try { await this.exec(fk) } catch {}
AddConstraint(c) ==
  /\ Running(c) /\ calls[c].at = "addConstraint"
  /\ \E ok \in Outcomes :
       LET constraint == Head(calls[c].todo)
           rest == Tail(calls[c].todo)
           call == Issued(calls[c], "ALTER TABLE ADD CONSTRAINT", constraint, ok)
       IN /\ catalog' = IF ok THEN [catalog EXCEPT !.constraints = @ \cup {constraint}]
                        ELSE catalog
          /\ calls' = SetCall(c, [call EXCEPT !.todo = rest,
                                    !.at = Caught(IF rest = <<>> THEN "done" ELSE @, ok)])
  /\ UNCHANGED <<qbvars, pf, processedTables>>

\* The process ends and a new one starts: processedTables is empty again.
\* No call of the old process is left running.
Restart ==
  /\ processedTables # {} /\ Len(calls) < MaxCalls
  /\ \A c \in 1..Len(calls) : ~Running(c)
  /\ processedTables' = {}
  /\ UNCHANGED <<qbvars, pf, catalog, calls>>

NextMig ==
  \/ ensureTable
  \/ Restart
  \/ \E c \in 1..MaxCalls :
       \/ tableExists(c)
       \/ CreateTable(c)
       \/ getExistingColumns(c)
       \/ AddColumn(c)
       \/ getExistingIndexes(c)
       \/ CreateIndex(c)
       \/ GetExistingFKs(c)
       \/ AddConstraint(c)

SpecMig == InitMig /\ [][NextMig]_vars

\* ------------------------------------------------------------------ claims
BaseRows == IF log # <<>> /\ log[1].ok THEN ExecRows(db, log[1].stmt) ELSE <<>>

CallsOn(name) == Cardinality({i \in 1..Len(log) : log[i].stmt.table = name /\ i > 1})

\* get() has resolved a query on User that preloads posts, with no nested
\* path under posts, over a batch of at least one parent row.
PostsPreloaded ==
  /\ pc = "done" /\ modelName = "User" /\ BaseRows # <<>>
  /\ Includes(_preloads, <<"posts">>) /\ Grouped(_preloads, "posts") = <<>>

HasUsableKey(rows, key) == \E i \in 1..Len(rows) : Truthy(Prop(rows[i], key))

C2_GetTerminates ==
  /\ [](Len(stack) < MaxDepth)
  /\ (pc = "preload") ~> (pc \in {"done", "rejected"})

C2_Witness ==
  /\ pc = "done" /\ modelName = "User"
  /\ Includes(_preloads, <<"profile", "user", "profile">>)
  /\ CallsOn("profiles") >= 1

\* get() has resolved User.preload("profile.user.profile") and nothing else.
CyclePreloaded ==
  /\ pc = "done" /\ modelName = "User" /\ _selects = <<>> /\ _exclude = <<>>
  /\ _preloads = << <<"profile", "user", "profile">> >>

HasObj(row, key) == key \in DOMAIN row /\ row[key].k = "obj"

HasArr(row, key) == key \in DOMAIN row /\ row[key].k = "arr"

\* C3, as stated: every level of "profile.user.profile" is present in the
\* result: each user's profile carries its user, and that user its profile.
C3_EveryLevelAttached ==
  CyclePreloaded =>
    \A i \in 1..Len(result) :
      HasObj(result[i], "profile") =>
        /\ HasObj(result[i].profile.v, "user")
        /\ HasObj(result[i].profile.v.user.v, "profile")

\* get() has resolved User.preload("posts") with every column selected and
\* nothing excluded.
PlainPostsPreloaded == PostsPreloaded /\ _selects = <<>> /\ _exclude = <<>>

PostsOf(user) ==
  LET mine(p) == StrictEq(p.userId, user.id)
  IN Arr(MapSeq(SelectSeq(db.posts, mine), Obj))

\* C6, as stated: each parent's relation field is the array of exactly the
\* target rows whose foreign key equals the parent's primary key, [] when
\* there are none.
C6_ChildrenGrouped ==
  PlainPostsPreloaded =>
    \A i \in 1..Len(result) :
      /\ "posts" \in DOMAIN result[i]
      /\ result[i].posts = PostsOf(result[i])

\* get() has resolved Post.preload("user") with exclude("user.lastname").
UserPreloadedWithoutLastname ==
  /\ pc = "done" /\ modelName = "Post"
  /\ Includes(_preloads, <<"user">>) /\ _exclude = << <<"user", "lastname">> >>

UserById(id) ==
  LET same(u) == StrictEq(u.id, id)
  IN SelectSeq(db.users, same)[1]

\* C7: the nested user has no lastname key and every other key of the fetched
\* user row; the post keeps every key the base statement returned.
C7_DottedExcludeIsScoped ==
  UserPreloadedWithoutLastname =>
    \A i \in 1..Len(result) :
      /\ DOMAIN BaseRows[i] \subseteq DOMAIN result[i]
      /\ \A key \in DOMAIN BaseRows[i] : result[i][key] = BaseRows[i][key]
      /\ HasObj(result[i], "user") =>
            /\ "id" \in DOMAIN result[i].user.v
            /\ DOMAIN result[i].user.v =
                  DOMAIN UserById(result[i].user.v.id) \ {"lastname"}

C7_Witness ==
  /\ UserPreloadedWithoutLastname
  /\ \E i \in 1..Len(result) : HasObj(result[i], "user")

\* C10: a rejected statement is the last one of its get(), which has rejected.
C10_RejectionEndsGet ==
  \A i \in 1..Len(log) : ~log[i].ok => i = Len(log) /\ pc = "rejected"

C10_Witness == pc = "rejected" /\ Len(log) = 2 /\ ~log[2].ok

\* ------------------------------------------- mapBooleans as a specification
BoolInputs ==
  {Num(1), Bool(TRUE), Str("1"), Num(0), Bool(FALSE), Str("0"), Null, Str("no")}

MBFields ==
  [active |-> [type |-> "boolean"],
   verified |-> [type |-> "boolean | undefined"],
   age |-> [type |-> "number"],
   missing |-> [type |-> "Boolean"]]

\* Rows with a boolean field, an optional boolean field that may be absent,
\* a number field and a key the schema does not declare.
MBRows ==
  { [active |-> a, age |-> n, note |-> x] : a \in BoolInputs, n \in {Num(0), Num(1)},
                                            x \in {Str("1"), Bool(TRUE)} }
  \cup
  { [active |-> a, verified |-> w, age |-> Str("1"), note |-> Num(1)] :
      a \in BoolInputs, w \in BoolInputs }

InitMB ==
  QBIdle /\ MigIdle /\ \E r \in MBRows : pf = [fn |-> "mapBooleans", step |-> 0, row |-> r, once |-> r, twice |-> r]

\* mapBooleans(row, schemaFields)
ApplyMapBooleans ==
  /\ pf.fn = "mapBooleans" /\ pf.step = 0
  /\ pf' = [pf EXCEPT !.step = 1, !.once = mapBooleans(pf.row, MBFields)]
  /\ UNCHANGED <<qbvars, mvars>>

\* mapBooleans applied to its own result
ReapplyMapBooleans ==
  /\ pf.fn = "mapBooleans" /\ pf.step = 1
  /\ pf' = [pf EXCEPT !.step = 2, !.twice = mapBooleans(pf.once, MBFields)]
  /\ UNCHANGED <<qbvars, mvars>>

NextMB == ApplyMapBooleans \/ ReapplyMapBooleans

SpecMB == InitMB /\ [][NextMB]_vars

TrueInputs == {Num(1), Bool(TRUE), Str("1")}

BooleanKeys == {key \in DOMAIN MBFields : IncludesBoolean(MBFields[key].type)}

\* C8: on a boolean-typed field 1, true and "1" become true and every other
\* value false; the other fields and the key set are unchanged; applying
\* mapBooleans to its result changes nothing.
C8_MapBooleansTotalIdempotent ==
  /\ pf.step >= 1 =>
       /\ DOMAIN pf.once = DOMAIN pf.row
       /\ \A key \in DOMAIN pf.row :
            pf.once[key] = IF key \in BooleanKeys THEN Bool(pf.row[key] \in TrueInputs)
                           ELSE pf.row[key]
  /\ pf.step = 2 => pf.twice = pf.once

C8_Witness ==
  /\ pf.step = 2 /\ pf.row.active = Str("no") /\ pf.twice.active = Bool(FALSE)
  /\ pf.twice.note = Str("1")

\* -------------------------------------------------- removeExcluded harness
\* The exclude paths the two calls are given.
REPaths == {<<"password">>, <<"profile">>, <<"profile", "email">>, <<"posts", "title">>}

SeqsUpTo(S, n) == UNION {[1..k -> S] : k \in 0..n}

\* A row with a nested object and a nested array, and one without either.
RERows ==
  { Obj([name |-> Str("n"), password |-> Str("p"),
         profile |-> Obj([email |-> Str("e"), bio |-> Str("b")]),
         posts |-> Arr(<<Obj([title |-> Str("t"), body |-> Str("x")])>>)]),
    Obj([name |-> Str("n"), password |-> Str("p"),
         profile |-> Null, posts |-> Arr(<<>>)]) }

InitRE ==
  QBIdle /\ MigIdle /\ \E r \in RERows : \E A \in SeqsUpTo(REPaths, MaxExcludes) :
    \E B \in SeqsUpTo(REPaths, MaxExcludes) :
      pf = [fn |-> "removeExcluded", step |-> 0, row |-> r, A |-> A, B |-> B,
            a |-> r, ab |-> r, b |-> r, ba |-> r, union |-> r]

\* removeExcluded(row, A)
RemoveA ==
  /\ pf.fn = "removeExcluded" /\ pf.step = 0
  /\ pf' = [pf EXCEPT !.step = 1, !.a = removeExcluded(pf.row, pf.A)]
  /\ UNCHANGED <<qbvars, mvars>>

\* removeExcluded(removeExcluded(row, A), B)
RemoveBAfterA ==
  /\ pf.fn = "removeExcluded" /\ pf.step = 1
  /\ pf' = [pf EXCEPT !.step = 2, !.ab = removeExcluded(pf.a, pf.B)]
  /\ UNCHANGED <<qbvars, mvars>>

\* removeExcluded(row, B)
RemoveB ==
  /\ pf.fn = "removeExcluded" /\ pf.step = 2
  /\ pf' = [pf EXCEPT !.step = 3, !.b = removeExcluded(pf.row, pf.B)]
  /\ UNCHANGED <<qbvars, mvars>>

\* removeExcluded(removeExcluded(row, B), A)
RemoveAAfterB ==
  /\ pf.fn = "removeExcluded" /\ pf.step = 3
  /\ pf' = [pf EXCEPT !.step = 4, !.ba = removeExcluded(pf.b, pf.A)]
  /\ UNCHANGED <<qbvars, mvars>>

\* removeExcluded(row, [...A, ...B])
RemoveUnion ==
  /\ pf.fn = "removeExcluded" /\ pf.step = 4
  /\ pf' = [pf EXCEPT !.step = 5, !.union = removeExcluded(pf.row, pf.A \o pf.B)]
  /\ UNCHANGED <<qbvars, mvars>>

NextRE == RemoveA \/ RemoveBAfterA \/ RemoveB \/ RemoveAAfterB \/ RemoveUnion

SpecRE == InitRE /\ [][NextRE]_vars

\* C9: removing A then B, removing B then A, and removing the union of A and
\* B in one call all give the same row.
C9_RemoveExcludedComposes ==
  pf.step = 5 => pf.ab = pf.union /\ pf.ba = pf.union

C9_Witness ==
  /\ pf.step = 5 /\ pf.A = << <<"profile">> >> /\ pf.B = << <<"profile", "email">> >>
  /\ pf.row.v.profile # Null /\ "profile" \notin DOMAIN pf.union.v
  /\ "password" \in DOMAIN pf.union.v

\* ------------------------------------------------------- migrator claims
Ops(call) == {call.issued[i].op : i \in 1..Len(call.issued)}

\* Call c - 1 created the table, every statement of it succeeded, and it had
\* returned, as had every other call, when call c was made.
MadeTableBefore(c) ==
  /\ c \in 2..Len(calls)
  /\ calls[c - 1].at = "done" /\ "CREATE TABLE" \in Ops(calls[c - 1])
  /\ \A i \in 1..Len(calls[c - 1].issued) : calls[c - 1].issued[i].ok
  /\ calls[c].overlaps = {} /\ calls[c].at = "done"

\* C4, as stated: a second call with identical field declarations that gets
\* past the processed-table check issues introspection queries only.
C4_SecondCallOnlyIntrospects ==
  \A c \in 1..Len(calls) :
    /\ MadeTableBefore(c) /\ calls[c].schema = calls[c - 1].schema
    /\ calls[c].issued # <<>>
    => Ops(calls[c]) \subseteq Introspection

\* C5, as stated: a second call that declares one more, optional, field issues
\* exactly one ALTER TABLE ADD COLUMN, for that field, and no ALTER for a
\* column the table already had.
C5_OneAddColumnForNewField ==
  \A c \in 1..Len(calls) :
    MadeTableBefore(c) /\ calls[c].schema = Append(calls[c - 1].schema, Nick)
    => LET isAlter(stmt) == stmt.op \in {"ALTER TABLE ADD COLUMN", "ALTER TABLE ADD CONSTRAINT"}
           alters == SelectSeq(calls[c].issued, isAlter)
       IN /\ Len(alters) = 1
          /\ alters[1].op = "ALTER TABLE ADD COLUMN" /\ alters[1].arg = Nick.col

\* C11, as stated: a call whose CREATE TABLE statement the execute function
\* rejected does not reject: it goes on to the index and constraint
\* statements.
C11_RejectedCreateGoesOn ==
  \A c \in 1..Len(calls) :
    \A i \in 1..Len(calls[c].issued) :
      calls[c].issued[i].op = "CREATE TABLE" /\ ~calls[c].issued[i].ok
      => calls[c].at # "rejected"

\* ------------------------------------------------------- statement claims
\* C12, as stated: no statement is ever executed through a builder whose
\* model has no entry in the schema.
C12_NoStatementWithoutSchemaEntry == log # <<>> => modelName \in DOMAIN Schema

\* C13, as stated: the statement of first() has LIMIT 1 when no limit was
\* set and the limit n that was set otherwise, for every n; first() resolves
\* with the first row of get()'s result, or with null when there is none.
C13_FirstKeepsSetLimit ==
  called.method = "first" /\ log # <<>> =>
    /\ log[1].stmt.limit = IF called.limit = Null THEN Num(1) ELSE called.limit
    /\ pc = "done" => returned = IF result = <<>> THEN Null ELSE Obj(result[1])

\* A step of get(): the builder is idle before it and is not after it.
GetStep ==
  /\ pc \in {"build", "again"} /\ pc' \notin {"build", "again", "threw"}
  /\ called'.method = "get"

C15_UnknownEngineUsesDefault ==
  called.method # "" /\ orm.dialect \notin DialectNames =>
    /\ log # <<>>
    /\ log[1].stmt.quote = "double"
    /\ \A k \in 1..Len(log[1].stmt.where) : log[1].stmt.where[k].ph.mark \in {"?", ""}

\* C17, as stated: in the postgres dialect, after where() and ILike() calls
\* only, the k-th predicate of the statement carries the placeholder $k and
\* the k-th parameter is the value of that predicate.
C17_PlaceholdersInOrder ==
  LET text == log[1].stmt.where
  IN /\ log # <<>> /\ orm.dialect = "postgres"
     /\ \A k \in 1..Len(text) : text[k].form # "raw"
     => /\ Len(log[1].stmt.params) = Len(text)
        /\ \A k \in 1..Len(text) :
             /\ text[k].ph = Placeholder("$", k)
             /\ log[1].stmt.params[k] = _where[k].value

\* ---------------------------------------------------------- preload claims
\* C16, as stated: no statement of a get() call is issued for a (model,
\* relation field) pair that the call chain it is issued in has traversed
\* already.
C16_NoPairQueriedTwice ==
  \A i \in 1..Len(log) :
    \A a, b \in 1..Len(log[i].chain) :
      a # b => log[i].chain[a] # log[i].chain[b]

\* A get() that ended with one root, and no path below it, to preload into
\* the rows of its base statement.
OneRootPreloaded ==
  /\ pc = "done" /\ BaseRows # <<>>
  /\ Len(_preloads) = 1 /\ Len(_preloads[1]) = 1
  /\ _preloads[1][1] \in DOMAIN relations[modelName]
  /\ relations[modelName][_preloads[1][1]] # NoRelation

\* The value of a relation field that holds nothing.
EmptyValue(kind) == IF kind \in {"onetomany", "manytomany"} THEN Arr(<<>>) ELSE Null

\* C18, as stated: when no row of the batch has a usable key, the root issues
\* no statement and every parent holds [] for a one-to-many or many-to-many
\* relation and null for a many-to-one or one-to-one relation.
C18_NoKeyGivesEmptyValue ==
  LET root == _preloads[1][1]
  IN OneRootPreloaded /\ parentIds(BaseRows, Schema[modelName].primaryKey) = <<>> =>
       /\ Len(log) = 1
       /\ \A i \in 1..Len(result) :
            Prop(result[i], root) = EmptyValue(relations[modelName][root].kind)

\* The target rows that belong to a parent row of a single-valued relation:
\* by the parent's foreign-key value when the parent carries that column, by
\* the parent's primary key otherwise.
TargetsOf(row, relation) ==
  LET targetSchema == Schema[relation.targetModel]
      targets == db[targetSchema.table]
      owned(t) == StrictEq(Prop(t, TargetPK(targetSchema)), Prop(row, relation.foreignKey))
      reverse(t) == StrictEq(Prop(t, relation.foreignKey),
                             Prop(row, Schema[modelName].primaryKey))
      match(t) == IF relation.foreignKey \in DOMAIN row THEN owned(t) ELSE reverse(t)
  IN {Obj(cleanRow(targets[k], targetSchema, _preloads[1][1], <<>>)) :
        k \in {j \in 1..Len(targets) : match(targets[j])}}

\* C19, as stated: after a many-to-one or one-to-one preload with no nested
\* path, each parent's relation field is the target row whose primary key is
\* the parent's foreign-key value when the parents carry the foreign key, a
\* target row whose foreign key is the parent's primary key when they do not,
\* and null when there is no such row.
C19_SingleTargetAssigned ==
  LET root == _preloads[1][1]
      relation == relations[modelName][root]
  IN OneRootPreloaded /\ _exclude = <<>> /\ relation.kind \in {"manytoone", "onetoone"} =>
       \A i \in 1..Len(result) :
         IF TargetsOf(result[i], relation) = {} THEN Prop(result[i], root) = Null
         ELSE Prop(result[i], root) \in TargetsOf(result[i], relation)

\* The first preload() path that starts with the root.
FirstAt(root) ==
  CHOOSE k \in 1..Len(_preloads) :
    /\ _preloads[k][1] = root
    /\ \A j \in 1..k - 1 : _preloads[j][1] # root

\* C20: the base statement is the first of a get(); the statements after it
\* come in groups, one per root, in the order the roots first appear in the
\* preload() calls; and every statement of a nested recursion comes after
\* the query of the root it is nested in.
C20_StatementsInRootOrder ==
  log # <<>> =>
    /\ log[1].chain = <<>>
    /\ \A i \in 2..Len(log) :
         /\ log[i].chain # <<>>
         /\ log[i].chain[1].model = modelName
         /\ \E k \in 1..Len(_preloads) : _preloads[k][1] = log[i].chain[1].root
    /\ \A i, j \in 2..Len(log) :
         i < j => FirstAt(log[i].chain[1].root) <= FirstAt(log[j].chain[1].root)
    /\ \A j \in 2..Len(log) :
         Len(log[j].chain) > 1 =>
           \E i \in 2..j - 1 :
             log[i].chain = SubSeq(log[j].chain, 1, Len(log[j].chain) - 1)

\* User.preload("posts.posts").preload("profile") has ended: the base
\* statement, the posts, the posts nested in them, then the profiles.
C20_Witness ==
  /\ pc = "done" /\ modelName = "User"
  /\ _preloads = << <<"posts", "posts">>, <<"profile">> >>
  /\ Len(log) = 4
  /\ Len(log[2].chain) = 1 /\ log[2].stmt.table = "posts"
  /\ Len(log[3].chain) = 2 /\ log[3].stmt.table = "posts"
  /\ Len(log[4].chain) = 1 /\ log[4].stmt.table = "profiles"

\* The keys of a related row whose declared type is boolean.
BooleanFields(model) ==
  {key \in DOMAIN Schema[model].fields : IncludesBoolean(Schema[model].fields[key].type)}

\* A related row of the model as it is to be attached under the root: its
\* boolean fields are true or false and no key that an exclude path scoped to
\* the root names is left.
Clean(row, model, root) ==
  /\ \A key \in BooleanFields(model) \cap DOMAIN row : row[key].k = "bool"
  /\ \A key \in DOMAIN row : ~Includes(_exclude, <<root, key>>)

\* C21, as stated: every related row in the result of get() has its boolean
\* fields normalised and its scoped excludes removed, whether or not its
\* relation has nested preload paths.
C21_RelatedRowsClean ==
  pc = "done" /\ modelName \in DOMAIN Schema =>
    \A i \in 1..Len(result) :
      \A root \in DOMAIN result[i] \cap DOMAIN relations[modelName] :
        LET relation == relations[modelName][root]
            held == result[i][root]
        IN relation # NoRelation =>
             /\ held.k = "obj" => Clean(held.v, relation.targetModel, root)
             /\ held.k = "arr" =>
                  \A k \in 1..Len(held.v) :
                    Clean(held.v[k].v, relation.targetModel, root)

\* C22, as stated: the keys bound to a preload statement hold no null and no
\* value twice.
C22_BoundKeysDistinct ==
  \A i \in 2..Len(log) :
    LET keys == log[i].stmt.params
    IN /\ \A a \in 1..Len(keys) : keys[a] \notin {Null, Undefined}
       /\ \A a, b \in 1..Len(keys) : a # b => keys[a] # keys[b]

\* ---------------------------------------------------------- migrator claims
\* The statements of one kind that a call handed to exec.
Attempted(c, op) ==
  {calls[c].issued[i].arg : i \in {j \in 1..Len(calls[c].issued) : calls[c].issued[j].op = op}}

\* C23: a call that found the table never rejects, whatever the execute
\* function answered to its ALTER TABLE ADD COLUMN, CREATE INDEX and
\* constraint statements, and when it has ended it has attempted every
\* column, index and constraint of its schema that the table does not have.
C23_AlterFailuresSwallowed ==
  \A c \in 1..Len(calls) :
    calls[c].exists =>
      /\ calls[c].at # "rejected"
      /\ calls[c].at = "done" =>
           LET schema == calls[c].schema
               post == postConstraints(schema, TRUE)
           IN /\ \A i \in 1..Len(schema) :
                   \/ schema[i].col \in catalog.columns
                   \/ schema[i].col \in Attempted(c, "ALTER TABLE ADD COLUMN")
              /\ \A i \in 1..Len(indexSql(schema)) :
                   \/ indexSql(schema)[i] \in catalog.indexes
                   \/ indexSql(schema)[i] \in Attempted(c, "CREATE INDEX")
              /\ \A i \in 1..Len(post) :
                   \/ post[i] \in catalog.constraints
                   \/ post[i] \in Attempted(c, "ALTER TABLE ADD CONSTRAINT")

\* A call on an existing table has ended after the execute function rejected
\* one of its ADD COLUMN statements, and it went on to a later column, to an
\* index and to a constraint.
C23_Witness ==
  \E c \in 1..Len(calls) :
    /\ calls[c].exists /\ calls[c].at = "done"
    /\ \E i, j \in 1..Len(calls[c].issued) :
         /\ i < j
         /\ calls[c].issued[i].op = "ALTER TABLE ADD COLUMN" /\ ~calls[c].issued[i].ok
         /\ calls[c].issued[j].op = "ALTER TABLE ADD COLUMN"
    /\ Attempted(c, "CREATE INDEX") # {}
    /\ Attempted(c, "ALTER TABLE ADD CONSTRAINT") # {}

\* ------------------------------------- migrateSchema as a specification
\* Migrator.migrateSchema of src/src/migrator.ts, lines 315-322, for one
\* model: ensureTimestamps, ensureTable, then applyDefaults (lines 548-575),
\* which awaits one statement at a time.  ensureTable is one step here, which
\* resolves or rejects.
FieldCols == <<"a", "b", "c">>

\* meta.default of a field: absent, null, or a boolean, number or string.
Defaults ==
  {Undefined, Null, Bool(FALSE), Bool(TRUE), Num(0), Num(7), Str(""), Str("x"),
   Str("CURRENT_TIMESTAMP")}

DefaultField(col, default) == [col |-> col, default |-> default]

\* The fields of the model: one to MaxFields declarations.
FieldLists ==
  UNION {[1..n -> Defaults] : n \in 1..MaxFields}

\* ensureTimestamps: createdAt, updatedAt and deletedAt are added after the
\* declared fields, which do not have them.
ensureTimestamps(fields) ==
  fields \o << DefaultField("createdAt", Str("CURRENT_TIMESTAMP")),
               DefaultField("updatedAt", Str("CURRENT_TIMESTAMP")),
               DefaultField("deletedAt", Null) >>

\* `value` of applyDefaults.
DefaultValue(def, driver) ==
  CASE def = Str("CURRENT_TIMESTAMP") ->
         IF driver = "sqlite" THEN [form |-> "sql", text |-> "strftime('%s','now')"]
         ELSE [form |-> "sql", text |-> "CURRENT_TIMESTAMP"]
    [] def.k = "bool" -> [form |-> "value", text |-> Num(IF def.v THEN 1 ELSE 0)]
    [] def.k = "str" -> [form |-> "quoted", text |-> def]
    [] OTHER -> [form |-> "value", text |-> def]

\* if (!info.meta?.default) continue; if (def === null) continue;
HasDefault(def) == Truthy(def) /\ def # Null

HasDefaultNotNull(def) == def \notin {Undefined, Null}

InitDefaults ==
  /\ QBIdle /\ MigIdle
  /\ \E defaults \in FieldLists, driver \in {"sqlite", "postgres"} :
       pf = [fn |-> "migrateSchema", driver |-> driver, at |-> "ensureTimestamps",
             fields |-> [k \in 1..Len(defaults) |-> DefaultField(FieldCols[k], defaults[k])],
             i |-> 1, issued |-> <<>>]

\* this.ensureTimestamps(model.fields)
EnsureTimestamps ==
  /\ pf.fn = "migrateSchema" /\ pf.at = "ensureTimestamps"
  /\ pf' = [pf EXCEPT !.fields = ensureTimestamps(@), !.at = "ensureTable"]
  /\ UNCHANGED <<qbvars, mvars>>

\* await this.ensureTable(model.table, model.fields)
MigrateTable ==
  /\ pf.fn = "migrateSchema" /\ pf.at = "ensureTable"
  /\ \E ok \in BOOLEAN :
       pf' = [pf EXCEPT !.at = IF ok THEN "applyDefaults" ELSE "rejected",
                        !.issued = Append(@, [op |-> "ensureTable", col |-> "",
                                              value |-> DefaultValue(Null, pf.driver),
                                              ok |-> ok])]
  /\ UNCHANGED <<qbvars, mvars>>

\* One turn of the loop of applyDefaults over a field that is skipped.
SkipDefault ==
  /\ pf.fn = "migrateSchema" /\ pf.at = "applyDefaults" /\ pf.i <= Len(pf.fields)
  /\ ~HasDefault(pf.fields[pf.i].default)
  /\ pf' = [pf EXCEPT !.i = @ + 1]
  /\ UNCHANGED <<qbvars, mvars>>

\* One turn of the loop over a field that is backfilled:
\* await this.exec(`UPDATE ... SET col = value WHERE col IS NULL`).
UpdateDefault ==
  /\ pf.fn = "migrateSchema" /\ pf.at = "applyDefaults" /\ pf.i <= Len(pf.fields)
  /\ HasDefault(pf.fields[pf.i].default)
  /\ \E ok \in BOOLEAN :
       pf' = [pf EXCEPT !.i = @ + 1,
                        !.at = IF ok THEN @ ELSE "rejected",
                        !.issued = Append(@, [op |-> "UPDATE", col |-> pf.fields[pf.i].col,
                                              value |-> DefaultValue(pf.fields[pf.i].default,
                                                                     pf.driver),
                                              ok |-> ok])]
  /\ UNCHANGED <<qbvars, mvars>>

\* The loop is over: migrateSchema resolves.
MigrateDone ==
  /\ pf.fn = "migrateSchema" /\ pf.at = "applyDefaults" /\ pf.i > Len(pf.fields)
  /\ pf' = [pf EXCEPT !.at = "done"]
  /\ UNCHANGED <<qbvars, mvars>>

NextDefaults == EnsureTimestamps \/ MigrateTable \/ SkipDefault \/ UpdateDefault \/ MigrateDone

SpecDefaults == InitDefaults /\ [][NextDefaults]_vars

\* The backfill statements issued for a column.
Backfills(col) ==
  {i \in 1..Len(pf.issued) : pf.issued[i].op = "UPDATE" /\ pf.issued[i].col = col}

\* C24, as stated: when migrateSchema has resolved, it has issued, after the
\* structural migration, exactly one backfill UPDATE for every field whose
\* default is not null, false, 0 and the empty string included, and none for
\* a field with no default or a null one.
C24_OneBackfillPerDefault ==
  pf.fn = "migrateSchema" /\ pf.at = "done" =>
    \A k \in 1..Len(pf.fields) :
      /\ Cardinality(Backfills(pf.fields[k].col)) =
           IF HasDefaultNotNull(pf.fields[k].default) THEN 1 ELSE 0
      /\ \A i \in Backfills(pf.fields[k].col) : i > 1 /\ pf.issued[1].op = "ensureTable"

\* ------------------------------------------------------- unresolved roots
\* A root of the model that applyPreloads resolves: it names a relation whose
\* target model is in the schema.
Resolvable(model, root) ==
  /\ root \in DOMAIN relations[model]
  /\ relations[model][root] # NoRelation
  /\ relations[model][root].targetModel \in DOMAIN Schema

\* C25: a root that names no relation, or a relation whose target model is
\* not in the schema, issues no statement; get() rejects only when the
\* execute function rejected a statement; and when get() has resolved, every
\* row has for such a root what the base statement gave it and a value for
\* every other root.
C25_UnresolvedRootSkipped ==
  /\ \A i \in 2..Len(log) :
       \A d \in 1..Len(log[i].chain) :
         Resolvable(log[i].chain[d].model, log[i].chain[d].root)
  /\ pc = "rejected" => log # <<>> /\ ~log[Len(log)].ok
  /\ pc = "done" =>
       \A i \in 1..Len(result) :
         \A k \in 1..Len(_preloads) :
           LET root == _preloads[k][1]
           IN IF Resolvable(modelName, root) THEN root \in DOMAIN result[i]
              ELSE Prop(result[i], root) = Prop(BaseRows[i], root)

\* Post.preload("author").preload("user") has resolved: one statement after
\* the base one, the post's user attached and no author key on the post.
C25_Witness ==
  /\ pc = "done" /\ modelName = "Post"
  /\ _preloads = << <<"author">>, <<"user">> >>
  /\ Len(log) = 2 /\ log[2].stmt.table = "users"
  /\ Len(result) = 1 /\ HasObj(result[1], "user") /\ "author" \notin DOMAIN result[1]

\* ------------------------------------------------------ many-to-many claims
\* The junction rows that pair the tag with the post.
Pairings(tag, post) ==
  {j \in 1..Len(db.post_tags) :
     /\ StrictEq(db.post_tags[j].tagId, tag) /\ StrictEq(db.post_tags[j].postId, post)}

\* The places of the post in the posts of a tag of the result.
PlacesOf(row, post) ==
  {k \in 1..Len(row.posts.v) : StrictEq(Prop(row.posts.v[k].v, "id"), post)}

\* A tag of the result of get() that has a key the code collects, with its
\* posts.
TagWithPosts(i) ==
  /\ pc = "done" /\ modelName = "Tag" /\ i \in 1..Len(result)
  /\ "id" \in DOMAIN result[i] /\ Truthy(result[i].id) /\ HasArr(result[i], "posts")

C27_OneCreateWhenInterleaved ==
  \A c1, c2 \in 1..Len(calls) :
    c1 \in calls[c2].overlaps =>
      ~("CREATE TABLE" \in Ops(calls[c1]) /\ "CREATE TABLE" \in Ops(calls[c2]))

\* ------------------------------------------------ nested single relations
\* The related row that is held is the user of the database with this key,
\* whatever keys were taken from it and however its booleans are written.
IsUser(held, key) ==
  \E k \in 1..Len(db.users) :
    /\ StrictEq(db.users[k].id, key)
    /\ \A x \in DOMAIN held \cap DOMAIN db.users[k] :
         mapBooleans(held, Schema.User.fields)[x] =
           mapBooleans(db.users[k], Schema.User.fields)[x]

\* C28, as stated: after Post.preload("user.profile"), with or without
\* exclude("user.id"), the user of each post is null or the user whose key
\* is the post's userId, and never the user of another post.
C28_NestedSingleIsOwn ==
  pc = "done" /\ modelName = "Post" /\ Includes(_preloads, <<"user", "profile">>) =>
    \A i \in 1..Len(result) :
      "user" \in DOMAIN result[i] =>
        \/ result[i].user = Null
        \/ /\ result[i].user.k = "obj"
           /\ IsUser(result[i].user.v, Prop(BaseRows[i], "userId"))

\* C29, as stated: when the posts carry a userId and none of them a primary
\* key, Post.preload("user") still issues the statement on the users and
\* attaches to each post the user its userId names.
C29_ForeignKeyIsEnough ==
  /\ pc = "done" /\ modelName = "Post" /\ _preloads = << <<"user">> >>
  /\ BaseRows # <<>> /\ parentIds(BaseRows, Schema.Post.primaryKey) = <<>>
  /\ \A i \in 1..Len(BaseRows) : Truthy(Prop(BaseRows[i], "userId"))
  => /\ Len(log) = 2 /\ log[2].stmt.table = "users"
     /\ \A i \in 1..Len(result) :
          (\E k \in 1..Len(db.users) : StrictEq(db.users[k].id, BaseRows[i].userId))
          => /\ HasObj(result[i], "user")
             /\ IsUser(result[i].user.v, BaseRows[i].userId)

\* ------------------------------------------ model hooks as a specification
\* insert, update and delete of the model API of src/src/model.ts, lines
\* 184-323, on a table that holds the row with id 1 or no row.  get(filter),
\* lines 331-354, is one SELECT; ensure() is one step, and the ensure() of a
\* get() that follows it returns at once.
Item == Obj([id |-> Num(1), name |-> Str("n")])

Modified == Obj([id |-> Num(1), name |-> Str("m")])

Filter == Obj([id |-> Num(1)])

StoredRows == {Null, Obj([id |-> Num(1), name |-> Str("o")])}

Operations == {"insert", "update", "delete"}

\* What a before-hook resolves with.
Answers == {Undefined, Modified}

WriteOp(op) ==
  CASE op = "insert" -> "INSERT" [] op = "update" -> "UPDATE" [] op = "delete" -> "DELETE"

Hook(op, when) == [op |-> op, when |-> when]

\* A plausible slip: the test is for null, which a hook that returns
\* nothing does not resolve with.
VetoedWhenNull(modified) == modified = Null

\* if (modified === undefined) return ...
Vetoed(modified) == modified = Undefined

\* What the call returns when the before-hook gave the write up.
VetoValue(op, before) ==
  CASE op = "insert" -> Null [] op = "update" -> before [] op = "delete" -> Filter

\* The row after UPDATE ... SET data WHERE id = 1, and after the other writes.
Written(op, stored, arg) ==
  CASE op = "insert" -> arg
    [] op = "update" ->
         IF stored = Null THEN Null
         ELSE Obj([x \in DOMAIN stored.v |->
                     IF x \in DOMAIN arg.v THEN arg.v[x] ELSE stored.v[x]])
    [] op = "delete" -> Null

InitHooks ==
  /\ QBIdle /\ MigIdle
  /\ \E op \in Operations, hasBefore \in BOOLEAN, hasAfter \in BOOLEAN,
        answer \in Answers, stored \in StoredRows :
       pf = [fn |-> "model", op |-> op, at |-> "ensure",
             hooks |-> [before |-> hasBefore, after |-> hasAfter],
             answer |-> answer, stored |-> stored,
             arg |-> IF op = "delete" THEN Filter ELSE Item,
             before |-> Undefined, after |-> Undefined,
             issued |-> <<>>, hooked |-> <<>>, returned |-> Undefined]

\* await ensure()
Ensure ==
  /\ pf.fn = "model" /\ pf.at = "ensure"
  /\ pf' = [pf EXCEPT !.at = IF pf.op = "insert" THEN "before" ELSE "getBefore",
                      !.issued = Append(@, "ensureTable")]
  /\ UNCHANGED <<qbvars, mvars>>

\* const before = await this.get(where); const toDelete = await this.get(filter)
GetBefore ==
  /\ pf.fn = "model" /\ pf.at = "getBefore"
  /\ pf' = [pf EXCEPT !.at = "before", !.before = pf.stored,
                      !.issued = Append(@, "SELECT")]
  /\ UNCHANGED <<qbvars, mvars>>

\* if (hooks?.onCreateBefore) { ... }, and the same for update and delete.
BeforeHook ==
  /\ pf.fn = "model" /\ pf.at = "before" /\ pf.hooks.before
  /\ pf' = IF Vetoed(pf.answer)
           THEN [pf EXCEPT !.at = "returned", !.hooked = Append(@, Hook(pf.op, "before")),
                           !.returned = VetoValue(pf.op, pf.before)]
           ELSE [pf EXCEPT !.at = "write", !.hooked = Append(@, Hook(pf.op, "before")),
                           !.arg = IF pf.op = "delete" THEN @ ELSE pf.answer]
  /\ UNCHANGED <<qbvars, mvars>>

\* The model has no before-hook.
NoBeforeHook ==
  /\ pf.fn = "model" /\ pf.at = "before" /\ ~pf.hooks.before
  /\ pf' = [pf EXCEPT !.at = "write"]
  /\ UNCHANGED <<qbvars, mvars>>

\* await adapter.exec(sql, ...) of the INSERT, UPDATE or DELETE.
Write ==
  /\ pf.fn = "model" /\ pf.at = "write"
  /\ \E ok \in BOOLEAN :
       pf' = [pf EXCEPT !.issued = Append(@, WriteOp(pf.op)),
                        !.stored = IF ok THEN Written(pf.op, @, pf.arg) ELSE @,
                        !.at = IF ~ok THEN "rejected"
                               ELSE IF pf.op = "delete" THEN "after" ELSE "getAfter"]
  /\ UNCHANGED <<qbvars, mvars>>

\* const inserted = await this.get(item); const after = await this.get(where)
GetAfter ==
  /\ pf.fn = "model" /\ pf.at = "getAfter"
  /\ pf' = [pf EXCEPT !.at = "after", !.after = pf.stored, !.issued = Append(@, "SELECT")]
  /\ UNCHANGED <<qbvars, mvars>>

\* The after-hook, when there is one (and, for insert, a row), then return.
AfterHook ==
  /\ pf.fn = "model" /\ pf.at = "after"
  /\ LET fires == pf.hooks.after /\ (pf.op = "insert" => pf.after # Null)
     IN pf' = [pf EXCEPT !.at = "returned",
                         !.hooked = IF fires THEN Append(@, Hook(pf.op, "after")) ELSE @,
                         !.returned = IF pf.op = "delete" THEN Filter ELSE pf.after]
  /\ UNCHANGED <<qbvars, mvars>>

NextHooks ==
  Ensure \/ GetBefore \/ BeforeHook \/ NoBeforeHook \/ Write \/ GetAfter \/ AfterHook

SpecHooks == InitHooks /\ [][NextHooks]_vars

====
